---- MODULE Spec2Model ----
(***************************************************************************)
(* Entry store, retrieval engine, secure addressing and mode arbitration   *)
(* of the private journal server (src/journal.ts, src/search.ts,           *)
(* src/embeddings.ts, src/remote.ts, src/server.ts).                       *)
(*                                                                         *)
(* Strings that the code inspects character by character (file paths,      *)
(* resource tokens) are sequences of one-character strings.                *)
(***************************************************************************)
EXTENDS Integers, Sequences, FiniteSets, TLC

VARIABLES
    remoteConfig,  \* the RemoteConfig handed to the constructors (immutable)
    now,           \* the latest clock reading, in ms after midnight of the first day
    extractor,     \* EmbeddingService.extractor is non-null
    initPromise,   \* EmbeddingService.initPromise: "none", "resolved", "rejected"
    dirs,          \* directories created by the program (set of paths)
    docs,          \* content documents on disk: path -> record
    vecs,          \* vector documents on disk: path of the sibling .md -> record
    writes,        \* the writeEntry / writeThoughts calls in flight, by call id
    remoteStore,   \* entries the remote server accepted
    last,          \* the latest call that returned or raised, and what it did
    pathIn,        \* input of the stand-alone isPathSafe evaluation
    pathOut,       \* its outcome
    calls,         \* generateEmbedding calls and backfill runs in flight, by id
    loads          \* how often the model loader (pipeline) was invoked

vars == <<remoteConfig, now, extractor, initPromise, dirs, docs, vecs, writes,
          remoteStore, last, pathIn, pathOut, calls, loads>>

(***************************************************************************)
(* Bounds                                                                  *)
(***************************************************************************)
MaxWrites == 2      \* write calls per behaviour
MaxRand == 2        \* outcomes of Math.floor(Math.random() * 1000) explored
ServeWrites == 1    \* write calls in a behaviour that also serves requests
MaxPathParts == 4   \* fragments making up a path handed to isPathSafe alone
MaxVectors == 3     \* documents of a stored corpus
MaxRuns == 2        \* runs of generateMissingEmbeddings per behaviour
MaxCalls == 3       \* concurrent generateEmbedding calls
MaxRaceDocs == 2    \* content documents under two racing backfill runs
MaxUriLen == 3      \* code units of a path given to createJournalUri

(***************************************************************************)
(* Character sequences                                                     *)
(***************************************************************************)
StartsWith(s, pre) ==
    /\ Len(pre) <= Len(s)
    /\ SubSeq(s, 1, Len(pre)) = pre

Includes(s, sub) ==
    \E i \in 1..(Len(s) - Len(sub) + 1) : SubSeq(s, i, i + Len(sub) - 1) = sub

RECURSIVE Concat(_)
Concat(ss) == IF ss = <<>> THEN <<>> ELSE Head(ss) \o Concat(Tail(ss))

RECURSIVE Join(_, _)
Join(segs, sep) ==
    IF segs = <<>> THEN <<>>
    ELSE IF Len(segs) = 1 THEN Head(segs)
    ELSE Head(segs) \o sep \o Join(Tail(segs), sep)

\* s.split('/'): the maximal runs between separators, empty runs included
RECURSIVE SplitSlash(_, _)
SplitSlash(s, cur) ==
    IF s = <<>> THEN <<cur>>
    ELSE IF Head(s) = "/" THEN <<cur>> \o SplitSlash(Tail(s), <<>>)
    ELSE SplitSlash(Tail(s), Append(cur, Head(s)))

Dot == <<".">>
DotDot == <<".", ".">>
Slash == <<"/">>

(***************************************************************************)
(* node:path (posix)                                                       *)
(***************************************************************************)
isAbsolute(p) == Len(p) > 0 /\ Head(p) = "/"

\* normalizeString: drops empty and "." segments, resolves ".." against the
\* segments kept so far (above the root of an absolute path it is dropped,
\* in a relative path it is kept)
RECURSIVE normalizeString(_, _, _)
normalizeString(segs, acc, allowAboveRoot) ==
    IF segs = <<>> THEN acc
    ELSE LET s == Head(segs) IN
         IF s = <<>> \/ s = Dot THEN normalizeString(Tail(segs), acc, allowAboveRoot)
         ELSE IF s = DotDot THEN
             IF acc # <<>> /\ acc[Len(acc)] # DotDot
             THEN normalizeString(Tail(segs), SubSeq(acc, 1, Len(acc) - 1), allowAboveRoot)
             ELSE IF allowAboveRoot
             THEN normalizeString(Tail(segs), Append(acc, s), allowAboveRoot)
             ELSE normalizeString(Tail(segs), acc, allowAboveRoot)
         ELSE normalizeString(Tail(segs), Append(acc, s), allowAboveRoot)

normalize(p) ==
    IF Len(p) = 0 THEN Dot
    ELSE LET abs == isAbsolute(p)
             trailingSeparator == p[Len(p)] = "/"
             body == Join(normalizeString(SplitSlash(p, <<>>), <<>>, ~abs), Slash)
             body2 == IF Len(body) = 0 /\ ~abs THEN Dot ELSE body
             body3 == IF Len(body2) > 0 /\ trailingSeparator THEN body2 \o Slash ELSE body2
         IN IF abs THEN Slash \o body3 ELSE body3

(***************************************************************************)
(* decodeURIComponent                                                      *)
(***************************************************************************)
\* value of the hexadecimal digits the modelled alphabet contains
HexDigits == {"2", "c", "e"}
HexVal(c) == CASE c = "2" -> 2 [] c = "c" -> 12 [] c = "e" -> 14

\* the ASCII characters reachable as %2x with the digits above
CharOfCode(n) == CASE n = 34 -> "\"" [] n = 44 -> "," [] n = 46 -> "."

\* An escape is %XX with two hex digits.  A byte below 0x80 is one ASCII
\* character.  A byte of 0x80 or more needs continuation escapes %80..%BF,
\* which no string over the modelled digits contains, so it is a URIError.
EscapeAt(s) ==
    /\ Len(s) >= 3
    /\ s[2] \in HexDigits
    /\ s[3] \in HexDigits
    /\ 16 * HexVal(s[2]) + HexVal(s[3]) < 128

RECURSIVE decodeOk(_)
decodeOk(s) ==
    IF s = <<>> THEN TRUE
    ELSE IF Head(s) # "%" THEN decodeOk(Tail(s))
    ELSE EscapeAt(s) /\ decodeOk(SubSeq(s, 4, Len(s)))

RECURSIVE decodeURIComponent(_)
decodeURIComponent(s) ==
    IF s = <<>> THEN <<>>
    ELSE IF Head(s) # "%" THEN <<Head(s)>> \o decodeURIComponent(Tail(s))
    ELSE <<CharOfCode(16 * HexVal(s[2]) + HexVal(s[3]))>>
             \o decodeURIComponent(SubSeq(s, 4, Len(s)))

(***************************************************************************)
(* PrivateJournalServer.isPathSafe                                         *)
(***************************************************************************)
dangerousPaths ==
    { <<"/", "e", "t", "c", "/">>,
      <<"/", "b", "i", "n", "/">>,
      <<"/", "s", "b", "i", "n", "/">>,
      <<"/", "u", "s", "r", "/", "b", "i", "n", "/">>,
      <<"/", "u", "s", "r", "/", "s", "b", "i", "n", "/">>,
      <<"/", "b", "o", "o", "t", "/">>,
      <<"/", "s", "y", "s", "/">>,
      <<"/", "p", "r", "o", "c", "/">>,
      <<"/", "d", "e", "v", "/">>,
      <<"/", "r", "o", "o", "t", "/">> }

\* variant: isPathSafe without its third check (the decoding step)
isPathSafeNoDecode(filePath) ==
    IF ~isAbsolute(filePath) THEN "false"
    ELSE IF Includes(filePath, DotDot) THEN "false"
    ELSE LET normalizedPath == normalize(filePath) IN
         IF \E dangerous \in dangerousPaths : StartsWith(normalizedPath, dangerous)
         THEN "false"
         ELSE "true"

\* "true", "false", or "URIError" when decodeURIComponent throws
isPathSafe(filePath) ==
    IF ~isAbsolute(filePath) THEN "false"
    ELSE IF Includes(filePath, DotDot) THEN "false"
    ELSE IF ~decodeOk(filePath) THEN "URIError"
    ELSE IF Includes(decodeURIComponent(filePath), DotDot)
            \/ decodeURIComponent(filePath) # filePath THEN "false"
    ELSE IF Includes(filePath, <<"\\">>) /\ Includes(filePath, DotDot) THEN "false"
    ELSE LET normalizedPath == normalize(filePath) IN
         IF \E dangerous \in dangerousPaths : StartsWith(normalizedPath, dangerous)
         THEN "false"
         ELSE "true"

(***************************************************************************)
(* Configuration and input domains                                         *)
(***************************************************************************)
\* RemoteConfig values the constructors accept; present = FALSE is undefined
NoRemote == [present |-> FALSE, enabled |-> FALSE, remoteOnly |-> FALSE]

RemoteConfigs ==
    { NoRemote,
      [present |-> TRUE, enabled |-> FALSE, remoteOnly |-> FALSE],
      [present |-> TRUE, enabled |-> TRUE, remoteOnly |-> FALSE],
      [present |-> TRUE, enabled |-> TRUE, remoteOnly |-> TRUE],
      [present |-> TRUE, enabled |-> FALSE, remoteOnly |-> TRUE] }

\* this.remoteConfig?.remoteOnly and this.remoteConfig?.enabled
RemoteOnly == remoteConfig.present /\ remoteConfig.remoteOnly
RemoteEnabled == remoteConfig.present /\ remoteConfig.enabled

SectionKeys ==
    <<"feelings", "project_notes", "user_context", "technical_insights", "world_knowledge">>

SectionKeySet == {SectionKeys[i] : i \in 1..Len(SectionKeys)}

\* a section argument: undefined, the empty string, or some text
NoThoughts == [k \in SectionKeySet |-> "undef"]

ThoughtInputs ==
    { [NoThoughts EXCEPT !["project_notes"] = "text"],
      [NoThoughts EXCEPT !["feelings"] = "text"],
      [k \in SectionKeySet |-> "text"],
      [NoThoughts EXCEPT !["project_notes"] = "empty"],
      [NoThoughts EXCEPT !["feelings"] = "empty"] }

ContentInputs == {"text", "empty"}

\* JavaScript truthiness of a string argument
Truthy(v) == v = "text"

\* the instants at which the clock is observed
Instants == {0, 1}

Localities == {"project", "user"}

\* the two storage roots (projectJournalPath, userJournalPath)
ProjectRoot == <<"/", "p">>
UserRoot == <<"/", "u">>
RootOf(loc) == IF loc = "project" THEN ProjectRoot ELSE UserRoot

(***************************************************************************)
(* JournalManager: file names                                              *)
(***************************************************************************)
Digit(d) == <<"0", "1", "2", "3", "4", "5", "6", "7", "8", "9">>[d + 1]

\* String(n).padStart(width, '0')
RECURSIVE DigitsOf(_)
DigitsOf(n) == IF n < 10 THEN <<Digit(n)>> ELSE Append(DigitsOf(n \div 10), Digit(n % 10))

RECURSIVE Zeros(_)
Zeros(k) == IF k <= 0 THEN <<>> ELSE <<"0">> \o Zeros(k - 1)

padStart(n, width) == Zeros(width - Len(DigitsOf(n))) \o DigitsOf(n)

\* local-time fields of a Date; the clock starts at midnight of 2025-06-10
getDate(ts) == 10 + ts \div 86400000
getHours(ts) == (ts \div 3600000) % 24
getMinutes(ts) == (ts \div 60000) % 60
getSeconds(ts) == (ts \div 1000) % 60
getMilliseconds(ts) == ts % 1000

formatDate(ts) ==
    <<"2", "0", "2", "5", "-", "0", "6", "-">> \o padStart(getDate(ts), 2)

\* rand is Math.floor(Math.random() * 1000)
formatTimestamp(ts, rand) ==
    padStart(getHours(ts), 2) \o <<"-">> \o padStart(getMinutes(ts), 2) \o <<"-">>
        \o padStart(getSeconds(ts), 2) \o <<"-">>
        \o padStart(getMilliseconds(ts) * 1000 + rand, 6)

MdExt == <<".", "m", "d">>
EmbeddingExt == <<".", "e", "m", "b", "e", "d", "d", "i", "n", "g">>

dayDirectory(loc, ts) == RootOf(loc) \o Slash \o formatDate(ts)

filePathOf(loc, ts, rand) ==
    dayDirectory(loc, ts) \o Slash \o formatTimestamp(ts, rand) \o MdExt

EndsWith(s, suf) ==
    /\ Len(suf) <= Len(s)
    /\ SubSeq(s, Len(s) - Len(suf) + 1, Len(s)) = suf

\* variant: the vector document named by appending to the document's name
embeddingPathAppended(filePath) == filePath \o EmbeddingExt

\* filePath.replace(/\.md$/, '.embedding')
embeddingPathOf(filePath) ==
    IF EndsWith(filePath, MdExt)
    THEN SubSeq(filePath, 1, Len(filePath) - Len(MdExt)) \o EmbeddingExt
    ELSE filePath

(***************************************************************************)
(* Files: a function from paths to records; writeFile replaces the file    *)
(***************************************************************************)
NoFiles == [p \in {} |-> 0]
NoCalls == <<>>

PutFile(files, path, rec) ==
    [p \in DOMAIN files \cup {path} |-> IF p = path THEN rec ELSE files[p]]

(***************************************************************************)
(* EmbeddingService.generateEmbedding                                      *)
(***************************************************************************)
\* loadOk: the model loader succeeds; genOk: the extractor call succeeds.
\* A rejected initPromise is returned again by initialize().
generateEmbeddingFrom(service, loadOk, genOk) ==
    IF service.extractor
    THEN [ok |-> genOk, extractor |-> TRUE, initPromise |-> service.initPromise]
    ELSE IF service.initPromise = "none" THEN
        IF loadOk THEN [ok |-> genOk, extractor |-> TRUE, initPromise |-> "resolved"]
        ELSE [ok |-> FALSE, extractor |-> FALSE, initPromise |-> "rejected"]
    ELSE [ok |-> FALSE, extractor |-> service.extractor, initPromise |-> service.initPromise]

\* the call on the service as it stands
generateEmbedding(loadOk, genOk) ==
    generateEmbeddingFrom([extractor |-> extractor, initPromise |-> initPromise],
                          loadOk, genOk)

(***************************************************************************)
(* JournalManager.writeEntry / writeThoughts                               *)
(***************************************************************************)
WriteIds == 1..MaxWrites

\* what a call gave its caller: one of these, or the pair <<prefix, message>>
\* of the error it raised
Pending == <<"pending">>
Returned == <<"ok">>
Content == <<"content">>
Null == <<"null">>

NoPaths == [l \in Localities |-> <<>>]

IdleWrite ==
    [pc |-> "idle", kind |-> "none", input |-> "none", ts |-> 0, loc |-> "none",
     file |-> NoPaths, wrote |-> [l \in Localities |-> FALSE],
     emb |-> [l \in Localities |-> "none"], post |-> "none", result |-> Pending]

\* a call that has returned or raised; its final record is then in last
ReturnedWrite == [IdleWrite EXCEPT !.pc = "returned"]

WriteReturn(w, c) == [op |-> "write", w |-> w, call |-> c]

\* the call returns normally / raises err
Return(c) == [c EXCEPT !.pc = "done", !.result = Returned]
Raise(c, err) == [c EXCEPT !.pc = "done", !.result = err]

\* writes' and last' once call w has reached record c
Continue(w, c) ==
    IF c.pc = "done"
    THEN /\ writes' = [writes EXCEPT ![w] = ReturnedWrite]
         /\ last' = WriteReturn(w, c)
    ELSE /\ writes' = [writes EXCEPT ![w] = c]
         /\ last' = last

\* variant: every section routed to the project locality
LocalityAllProject(k) == "project"

\* the static section-key -> locality split of writeThoughts
LocalityOfSection(k) == IF k = "project_notes" THEN "project" ELSE "user"

thoughtsFor(loc, thoughts) ==
    [k \in SectionKeySet |-> IF LocalityOfSection(k) = loc THEN thoughts[k] ELSE "undef"]

\* if (projectThoughts.project_notes)
hasProjectContent(thoughts) ==
    \E k \in SectionKeySet : Truthy(thoughtsFor("project", thoughts)[k])

\* Object.values(userThoughts).some((value) => value !== undefined)
hasUserContent(thoughts) ==
    \E k \in SectionKeySet : thoughtsFor("user", thoughts)[k] # "undef"

\* variant: the local file operations are never skipped
keepsLocal == FALSE

\* if (this.remoteConfig?.remoteOnly): skip the local file operations
skipsLocal == RemoteOnly

\* formatThoughts pushes a section only when its value is truthy
renderedSections(thoughts) == {k \in SectionKeySet : Truthy(thoughts[k])}

\* the content document written for call w in locality loc
docOf(w, loc) ==
    LET c == writes[w] IN
    IF c.kind = "entry"
    THEN [writer |-> w, timestamp |-> c.ts, kind |-> "entry", sections |-> {},
          text |-> Truthy(c.input)]
    ELSE [writer |-> w, timestamp |-> c.ts, kind |-> "thoughts",
          sections |-> renderedSections(thoughtsFor(loc, c.input)),
          text |-> renderedSections(thoughtsFor(loc, c.input)) # {}]

\* tryRemotePost opens with: if (!this.remoteConfig?.enabled) return
BeginPost(c) ==
    IF RemoteEnabled THEN [c EXCEPT !.pc = "post"] ELSE Return(c)

\* variant: the vector derived before the content document is written
BeginLocalEmbedFirst(w, c, loc, rand) ==
    [c EXCEPT !.pc = "embed", !.loc = loc,
              !.file = [c.file EXCEPT ![loc] = filePathOf(loc, c.ts, rand)]]

\* the file name is fixed in the synchronous prefix of the local write
BeginLocal(w, c, loc, rand) ==
    [c EXCEPT !.pc = "file", !.loc = loc,
              !.file = [c.file EXCEPT ![loc] = filePathOf(loc, c.ts, rand)]]

\* ts is the reading of the clock taken by new Date(), never before the last
StartEntry(w, content, rand, ts) ==
    /\ writes[w].pc = "idle"
    /\ \A v \in WriteIds : v < w => writes[v].pc # "idle"
    /\ ts >= now
    /\ now' = ts
    /\ LET c == [IdleWrite EXCEPT !.kind = "entry", !.input = content, !.ts = ts] IN
       Continue(w, IF skipsLocal THEN BeginPost(c)
                   ELSE BeginLocal(w, c, "project", rand))
    /\ UNCHANGED <<calls, loads, remoteConfig, extractor, initPromise, dirs, docs, vecs,
                   remoteStore, pathIn, pathOut>>

StartThoughts(w, thoughts, rand, ts) ==
    /\ writes[w].pc = "idle"
    /\ \A v \in WriteIds : v < w => writes[v].pc # "idle"
    /\ ts >= now
    /\ now' = ts
    /\ LET c == [IdleWrite EXCEPT !.kind = "thoughts", !.input = thoughts, !.ts = ts] IN
       Continue(w, IF skipsLocal THEN BeginPost(c)
                   ELSE IF hasProjectContent(thoughts) THEN BeginLocal(w, c, "project", rand)
                   ELSE IF hasUserContent(thoughts) THEN BeginLocal(w, c, "user", rand)
                   ELSE BeginPost(c))
    /\ UNCHANGED <<calls, loads, remoteConfig, extractor, initPromise, dirs, docs, vecs,
                   remoteStore, pathIn, pathOut>>

\* ensureDirectoryExists (fs.access, then fs.mkdir(recursive) when the day
\* folder is absent), then fs.writeFile(filePath, formattedEntry)
WriteFile(w, mkdirOk, writeOk) ==
    LET c == writes[w]
        dir == dayDirectory(c.loc, c.ts)
        made == dir \in dirs \/ mkdirOk
    IN
    /\ c.pc = "file"
    /\ dirs' = IF made THEN dirs \cup {RootOf(c.loc), dir} ELSE dirs
    /\ docs' = IF made /\ writeOk THEN PutFile(docs, c.file[c.loc], docOf(w, c.loc))
               ELSE docs
    /\ Continue(w, IF ~made
                   THEN Raise(c, <<"Failed to create journal directory: ", "EACCES">>)
                   ELSE IF ~writeOk THEN Raise(c, <<"", "EIO">>)
                   ELSE [c EXCEPT !.pc = "embed", !.wrote[c.loc] = TRUE])
    /\ UNCHANGED <<calls, loads, remoteConfig, now, extractor, initPromise, vecs,
                   remoteStore, pathIn, pathOut>>

\* extractSearchableText: the section titles found in the document
\* the vector the embedding model returns for the text of a query
QueryEmbedding == <<3, 4>>
\* the vector it returns for the text of a written document
DocumentEmbedding == <<3, 4>>

sectionTitle(k) ==
    CASE k = "feelings" -> "Feelings"
      [] k = "project_notes" -> "Project Notes"
      [] k = "user_context" -> "User Context"
      [] k = "technical_insights" -> "Technical Insights"
      [] k = "world_knowledge" -> "World Knowledge"

\* the catch block of generateEmbeddingForEntry: is the error passed on?
embeddingErrorRaised(failed) == FALSE

\* generateEmbeddingForEntry, then the continuation of the write
GenerateEmbeddingForEntry(w, loadOk, genOk, saveOk, rand) ==
    LET c == writes[w]
        d == docOf(w, c.loc)
        g == generateEmbedding(loadOk, genOk)
        skipped == ~d.text
        saved == d.text /\ g.ok /\ saveOk
        status == IF skipped THEN "skipped" ELSE IF saved THEN "saved" ELSE "failed"
        c1 == [c EXCEPT !.emb[c.loc] = status]
        next == IF c.kind = "thoughts" /\ c.loc = "project" /\ hasUserContent(c.input)
                THEN BeginLocal(w, c1, "user", rand)
                ELSE BeginPost(c1)
    IN
    /\ c.pc = "embed"
    /\ IF skipped
       THEN UNCHANGED <<extractor, initPromise>>
       ELSE /\ extractor' = g.extractor
            /\ initPromise' = g.initPromise
    /\ vecs' = IF saved
               THEN PutFile(vecs, embeddingPathOf(c.file[c.loc]),
                            [writer |-> w, embedding |-> DocumentEmbedding,
                             text |-> "text", timestamp |-> c.ts,
                             sections |-> {sectionTitle(k) : k \in d.sections},
                             path |-> c.file[c.loc]])
               ELSE vecs
    /\ Continue(w, IF embeddingErrorRaised(status = "failed")
                   THEN Raise(c1, <<"", "embedding">>)
                   ELSE next)
    /\ UNCHANGED <<calls, loads, remoteConfig, now, dirs, docs, remoteStore, pathIn, pathOut>>

\* outcomes of a request to the remote server
RemoteFailures == {"network", "http500"}
RemoteOutcomes == {"ok"} \cup RemoteFailures

\* the catch block of tryRemotePost: rethrown only in remote-only mode
postErrorRaised == RemoteOnly

PostPrefix == "Remote journal posting failed: "

\* tryRemotePost, then the return of the write
TryRemotePost(w, loadOk, genOk, outcome) ==
    LET c == writes[w]
        asContent == c.kind = "entry" /\ Truthy(c.input)
        hasText == IF c.kind = "entry" THEN Truthy(c.input)
                   ELSE renderedSections(c.input) # {}
        g == generateEmbedding(loadOk, genOk)
    IN
    /\ c.pc = "post"
    /\ IF hasText
       THEN extractor' = g.extractor /\ initPromise' = g.initPromise
       ELSE UNCHANGED <<extractor, initPromise>>
    /\ IF outcome = "ok"
       THEN /\ remoteStore' = remoteStore \cup
                 {[writer |-> w, timestamp |-> c.ts,
                   shape |-> IF asContent THEN "content" ELSE "sections",
                   embedding |-> hasText /\ g.ok]}
            /\ Continue(w, Return([c EXCEPT !.post = "ok"]))
       ELSE /\ remoteStore' = remoteStore
            /\ Continue(w, IF postErrorRaised
                           THEN Raise([c EXCEPT !.post = outcome], <<PostPrefix, outcome>>)
                           ELSE Return([c EXCEPT !.post = outcome]))
    /\ UNCHANGED <<calls, loads, remoteConfig, now, dirs, docs, vecs, pathIn, pathOut>>

(***************************************************************************)
(* Secure addressing: journal://{project|user}/{base64url(path)}           *)
(***************************************************************************)
Base64Url ==
    <<"A", "B", "C", "D", "E", "F", "G", "H", "I", "J", "K", "L", "M", "N", "O", "P",
      "Q", "R", "S", "T", "U", "V", "W", "X", "Y", "Z", "a", "b", "c", "d", "e", "f",
      "g", "h", "i", "j", "k", "l", "m", "n", "o", "p", "q", "r", "s", "t", "u", "v",
      "w", "x", "y", "z", "0", "1", "2", "3", "4", "5", "6", "7", "8", "9", "-", "_">>

Base64UrlChars == {Base64Url[i] : i \in 1..Len(Base64Url)}

sextetOf(c) == (CHOOSE i \in 1..Len(Base64Url) : Base64Url[i] = c) - 1

\* the UTF-8 (ASCII) codes of the characters that occur in modelled paths
Ascii ==
    { <<"%", 37>>, <<"-", 45>>, <<".", 46>>, <<"/", 47>>, <<"0", 48>>, <<"1", 49>>,
      <<"2", 50>>, <<"3", 51>>, <<"4", 52>>, <<"5", 53>>, <<"6", 54>>, <<"7", 55>>,
      <<"8", 56>>, <<"9", 57>>, <<"\\", 92>>, <<"c", 99>>, <<"d", 100>>, <<"e", 101>>,
      <<"i", 105>>, <<"m", 109>>, <<"p", 112>>, <<"t", 116>>, <<"u", 117>> }

charCode(c) == (CHOOSE pr \in Ascii : pr[1] = c)[2]

\* a byte that is no modelled character decodes to a character outside the alphabet
fromCharCode(n) ==
    IF \E pr \in Ascii : pr[2] = n THEN (CHOOSE pr \in Ascii : pr[2] = n)[1] ELSE "?"

\* code units beyond ASCII that a JavaScript string may hold: a two-byte
\* character, an unpaired high surrogate, and the replacement character
EAcute == "\\u00E9"
LoneSurrogate == "\\uD800"
Replacement == "\\uFFFD"

\* the UTF-8 encoder: an unpaired surrogate is encoded as U+FFFD
utf8(c) ==
    CASE c = EAcute -> <<195, 169>>
      [] c \in {LoneSurrogate, Replacement} -> <<239, 191, 189>>
      [] OTHER -> <<charCode(c)>>

\* Buffer.from(text): the UTF-8 bytes of the string
RECURSIVE bytesOf(_)
bytesOf(text) == IF text = <<>> THEN <<>> ELSE utf8(Head(text)) \o bytesOf(Tail(text))

\* buffer.toString(): the UTF-8 decoder
RECURSIVE textOf(_)
textOf(bytes) ==
    IF bytes = <<>> THEN <<>>
    ELSE IF Len(bytes) >= 2 /\ SubSeq(bytes, 1, 2) = utf8(EAcute)
    THEN <<EAcute>> \o textOf(SubSeq(bytes, 3, Len(bytes)))
    ELSE IF Len(bytes) >= 3 /\ SubSeq(bytes, 1, 3) = utf8(Replacement)
    THEN <<Replacement>> \o textOf(SubSeq(bytes, 4, Len(bytes)))
    ELSE <<fromCharCode(Head(bytes))>> \o textOf(Tail(bytes))

\* buffer.toString('base64url'): three bytes to four characters, no padding
RECURSIVE base64urlEncode(_)
base64urlEncode(b) ==
    IF Len(b) = 0 THEN <<>>
    ELSE IF Len(b) = 1 THEN
        <<Base64Url[(b[1] \div 4) + 1], Base64Url[((b[1] % 4) * 16) + 1]>>
    ELSE IF Len(b) = 2 THEN
        <<Base64Url[(b[1] \div 4) + 1],
          Base64Url[((b[1] % 4) * 16) + (b[2] \div 16) + 1],
          Base64Url[((b[2] % 16) * 4) + 1]>>
    ELSE
        <<Base64Url[(b[1] \div 4) + 1],
          Base64Url[((b[1] % 4) * 16) + (b[2] \div 16) + 1],
          Base64Url[((b[2] % 16) * 4) + (b[3] \div 64) + 1],
          Base64Url[(b[3] % 64) + 1]>> \o base64urlEncode(SubSeq(b, 4, Len(b)))

\* Buffer.from(token, 'base64url'): four characters to three bytes; a tail of
\* three gives two bytes, of two gives one, a single trailing character none
RECURSIVE base64urlDecode(_)
base64urlDecode(t) ==
    IF Len(t) <= 1 THEN <<>>
    ELSE LET s1 == sextetOf(t[1])
             s2 == sextetOf(t[2])
         IN IF Len(t) = 2 THEN <<(s1 * 4) + (s2 \div 16)>>
            ELSE LET s3 == sextetOf(t[3]) IN
                 IF Len(t) = 3 THEN <<(s1 * 4) + (s2 \div 16), ((s2 % 16) * 16) + (s3 \div 4)>>
                 ELSE <<(s1 * 4) + (s2 \div 16), ((s2 % 16) * 16) + (s3 \div 4),
                        ((s3 % 4) * 64) + sextetOf(t[4])>>
                          \o base64urlDecode(SubSeq(t, 5, Len(t)))

\* variant: the path put into the URI as it is
createJournalUriPlain(filePath, type) ==
    [scheme |-> "journal", loc |-> type, tail |-> filePath]

\* a URI is kept split at "://" and the first "/": scheme, locality, token
createJournalUri(filePath, type) ==
    [scheme |-> "journal", loc |-> type, tail |-> base64urlEncode(bytesOf(filePath))]

\* /^journal:\/\/(project|user)\/[A-Za-z0-9_-]+$/
isValidJournalUri(uri) ==
    /\ uri.scheme = "journal"
    /\ uri.loc \in {"project", "user"}
    /\ Len(uri.tail) >= 1
    /\ \A i \in 1..Len(uri.tail) : uri.tail[i] \in Base64UrlChars

decodeJournalUri(uri) == textOf(base64urlDecode(uri.tail))

(***************************************************************************)
(* SearchService and the request handlers                                  *)
(***************************************************************************)
\* paths a caller may hand to read_journal_entry, besides those of documents
PathOutsideRoots == <<"/", "t">>
PathUnderEtc == <<"/", "e", "t", "c", "/", "t">>
PathRelative == <<".", ".", "/", "t">>
PathBadEscape == <<"/", "p", "/", "%">>
RemoteId == <<"i", "d">>
PathBackslash == <<"i", "\\", "d">>

CallerPaths ==
    {PathOutsideRoots, PathUnderEtc, PathRelative, PathBadEscape, RemoteId, PathBackslash}

\* URIs a caller may hand to resources/read, besides those of documents
CallerUris ==
    { createJournalUri(PathOutsideRoots, "project"),
      createJournalUri(PathUnderEtc, "user"),
      [scheme |-> "journal", loc |-> "admin", tail |-> <<"e", "A">>],
      [scheme |-> "journal", loc |-> "project", tail |-> <<"e", "?", "A">>] }

\* the locality whose root holds path p, or "none"
localityOfPath(p) ==
    IF StartsWith(p, ProjectRoot \o Slash) THEN "project"
    ELSE IF StartsWith(p, UserRoot \o Slash) THEN "user"
    ELSE "none"

\* variant: search/list/read going remote whenever remote is enabled
usesRemoteWhenEnabled == RemoteEnabled

\* search/list/read use the remote server exactly in remote-only mode
usesRemote == RemoteOnly

\* whether a file is at filePath; one outside the journal may or may not be
fileExists(filePath, exists) ==
    LET normalizedPath == normalize(filePath) IN
    IF localityOfPath(normalizedPath) = "none" THEN exists
    ELSE normalizedPath \in DOMAIN docs \cup DOMAIN vecs

\* variant: only '/' taken for a path separator
looksLikePathSlashOnly(filePath) == Includes(filePath, <<"/">>)

\* readEntry's test for a local file path in remote-only mode
looksLikePath(filePath) == Includes(filePath, <<"/">>) \/ Includes(filePath, <<"\\">>)

LocalFileError == <<"", "Cannot read local files in remote-only mode">>

\* variant: a missing file raised like any other failure of the read
readFileResultRaising(fs) == IF fs = "ok" THEN Content ELSE <<"", fs>>

\* the try/catch around fs.readFile: ENOENT is a null result
readFileResult(fs) ==
    IF fs = "ok" THEN Content ELSE IF fs = "ENOENT" THEN Null ELSE <<"", fs>>

\* SearchService.readEntry.  exists: a file outside the journal is there;
\* ioOk: the read meets no I/O error; outcome: what the remote server answers
readEntry(filePath, exists, ioOk, outcome) ==
    IF usesRemote THEN
        IF looksLikePath(filePath)
        THEN [reads |-> {}, remote |-> "none", fs |-> "none", result |-> LocalFileError]
        ELSE IF ~RemoteEnabled
        THEN [reads |-> {}, remote |-> "none", fs |-> "none",
              result |-> <<"", "Remote server not configured">>]
        ELSE [reads |-> {}, remote |-> outcome, fs |-> "none",
              result |-> IF outcome = "ok" THEN Content
                         ELSE IF outcome = "404" THEN Null
                         ELSE <<"", outcome>>]
    ELSE
        LET fs == IF ~ioOk THEN "EACCES"
                  ELSE IF fileExists(filePath, exists) THEN "ok" ELSE "ENOENT"
        IN [reads |-> {filePath}, remote |-> "none", fs |-> fs,
            result |-> readFileResult(fs)]

\* what a read request records when readEntry is not reached
NotCalled == [path |-> <<>>, fs |-> "none", result |-> <<"not called">>]

\* variant: read_journal_entry without its isPathSafe guard
readToolNeverChecksPath == FALSE

\* the handler's guard: in local and hybrid mode the path must pass isPathSafe
readToolChecksPath == ~RemoteOnly

\* the environment's choices that bear on a read: the remote answer in
\* remote-only mode, the state of the file system otherwise
ReadChoices ==
    IF usesRemote
    THEN {[exists |-> TRUE, ioOk |-> TRUE, outcome |-> o] : o \in RemoteOutcomes \cup {"404"}}
    ELSE {[exists |-> e, ioOk |-> io, outcome |-> "ok"] : e, io \in BOOLEAN}

\* tools/call read_journal_entry
ReadJournalEntry(path, env) ==
    LET safe == IF readToolChecksPath THEN isPathSafe(path) ELSE "true"
        req == [op |-> "read_journal_entry", arg |-> path]
    IN
    /\ last' =
         IF safe # "true"
         THEN req @@ [reads |-> {}, remote |-> "none", entry |-> NotCalled,
                      result |-> IF safe = "false"
                                 THEN <<"", "Access denied: Invalid file path">>
                                 ELSE <<"", "URIError">>]
         ELSE LET r == readEntry(path, env.exists, env.ioOk, env.outcome) IN
              req @@ [reads |-> r.reads, remote |-> r.remote,
                      entry |-> [path |-> path, fs |-> r.fs, result |-> r.result],
                      result |-> IF r.result = Null
                                 THEN <<"Failed to read entry: ", "Entry not found">>
                                 ELSE IF r.result = Content THEN Content
                                 ELSE <<"Failed to read entry: ", r.result[2]>>]
    /\ UNCHANGED <<calls, loads, remoteConfig, now, extractor, initPromise, dirs, docs, vecs, writes,
                   remoteStore, pathIn, pathOut>>

\* readJournalResource checks the decoded path in every mode
readResourceChecksPath == TRUE

\* resources/read: isValidJournalUri, then readJournalResource
ReadResource(uri, env) ==
    LET req == [op |-> "resources/read", arg |-> uri] IN
    /\ last' =
         IF ~isValidJournalUri(uri)
         THEN req @@ [reads |-> {}, remote |-> "none", entry |-> NotCalled,
                      result |-> <<"Failed to read resource: ", "Invalid journal URI">>]
         ELSE LET filePath == decodeJournalUri(uri)
                  safe == IF readResourceChecksPath THEN isPathSafe(filePath) ELSE "true"
              IN
              IF safe # "true"
              THEN req @@ [reads |-> {}, remote |-> "none", entry |-> NotCalled,
                           result |-> <<"Failed to read resource: ",
                                        IF safe = "false"
                                        THEN "Access denied: Path outside allowed directories"
                                        ELSE "URIError">>]
              ELSE LET r == readEntry(filePath, env.exists, env.ioOk, env.outcome) IN
                   req @@ [reads |-> r.reads, remote |-> r.remote,
                           entry |-> [path |-> filePath, fs |-> r.fs, result |-> r.result],
                           result |-> IF r.result = Null
                                      THEN <<"Failed to read resource: ",
                                             "Journal entry not found">>
                                      ELSE IF r.result = Content THEN Content
                                      ELSE <<"Failed to read resource: ", r.result[2]>>]
    /\ UNCHANGED <<calls, loads, remoteConfig, now, extractor, initPromise, dirs, docs, vecs, writes,
                   remoteStore, pathIn, pathOut>>

SearchTypes == {"both", "project", "user"}

\* loadEmbeddingsFromPath over the roots the type selects: the vector
\* documents read
loadedVectors(type) ==
    {p \in DOMAIN vecs :
        \/ type \in {"both", "project"} /\ localityOfPath(p) = "project"
        \/ type \in {"both", "user"} /\ localityOfPath(p) = "user"}

SearchPrefix == "Remote search failed: "
ListPrefix == "Remote listing failed: "

\* variant: searchRemote / listRecentRemote returning nothing on a failure
remoteQuerySwallowing(prefix, outcome) ==
    IF ~RemoteEnabled
    THEN [reads |-> {}, remote |-> "none", result |-> Returned]
    ELSE [reads |-> {}, remote |-> outcome, result |-> Returned]

\* searchRemote / listRecentRemote: the request, and the error wrapped
remoteQuery(prefix, outcome) ==
    IF ~RemoteEnabled
    THEN [reads |-> {}, remote |-> "none",
          result |-> <<prefix, "Remote server not configured">>]
    ELSE [reads |-> {}, remote |-> outcome,
          result |-> IF outcome = "ok" THEN Returned ELSE <<prefix, outcome>>]

(***************************************************************************)
(* Ranking of vector documents                                             *)
(*                                                                         *)
(* A vector document is the record of the fields its JSON text holds; a    *)
(* file whose text is not JSON is a record with the one field raw, and a   *)
(* file the process may not read a record with the one field eacces.       *)
(* Vector components are integers and a score is counted in hundredths;    *)
(* the vectors drawn have integral norms, so no score is rounded.          *)
(***************************************************************************)
\* String.prototype.toLowerCase on a character sequence
toLowerCase(s) ==
    LET UpperCase == <<"A", "B", "C", "D", "E", "F", "G", "H", "I", "J", "K", "L", "M",
                       "N", "O", "P", "Q", "R", "S", "T", "U", "V", "W", "X", "Y", "Z">>
        LowerCase == <<"a", "b", "c", "d", "e", "f", "g", "h", "i", "j", "k", "l", "m",
                       "n", "o", "p", "q", "r", "s", "t", "u", "v", "w", "x", "y", "z">>
    IN
    [i \in 1..Len(s) |->
        IF \E j \in 1..Len(UpperCase) : UpperCase[j] = s[i]
        THEN LowerCase[CHOOSE j \in 1..Len(UpperCase) : UpperCase[j] = s[i]]
        ELSE s[i]]

\* the characters of the section keys and of the section titles
Chars(str) ==
    CASE str = "feelings" -> <<"f", "e", "e", "l", "i", "n", "g", "s">>
      [] str = "project_notes" ->
             <<"p", "r", "o", "j", "e", "c", "t", "_", "n", "o", "t", "e", "s">>
      [] str = "user_context" ->
             <<"u", "s", "e", "r", "_", "c", "o", "n", "t", "e", "x", "t">>
      [] str = "technical_insights" ->
             <<"t", "e", "c", "h", "n", "i", "c", "a", "l", "_",
               "i", "n", "s", "i", "g", "h", "t", "s">>
      [] str = "world_knowledge" ->
             <<"w", "o", "r", "l", "d", "_", "k", "n", "o", "w", "l", "e", "d", "g", "e">>
      [] str = "Feelings" -> <<"F", "e", "e", "l", "i", "n", "g", "s">>
      [] str = "Project Notes" ->
             <<"P", "r", "o", "j", "e", "c", "t", " ", "N", "o", "t", "e", "s">>
      [] str = "User Context" ->
             <<"U", "s", "e", "r", " ", "C", "o", "n", "t", "e", "x", "t">>
      [] str = "Technical Insights" ->
             <<"T", "e", "c", "h", "n", "i", "c", "a", "l", " ",
               "I", "n", "s", "i", "g", "h", "t", "s">>
      [] str = "World Knowledge" ->
             <<"W", "o", "r", "l", "d", " ", "K", "n", "o", "w", "l", "e", "d", "g", "e">>

RECURSIVE sumOfProducts(_, _, _)
sumOfProducts(a, b, i) ==
    IF i = 0 THEN 0 ELSE sumOfProducts(a, b, i - 1) + (a[i] * b[i])

\* EmbeddingService.cosineSimilarity, in hundredths; sqrt is exact on the
\* perfect squares the drawn vectors produce
cosineSimilarity(a, b) ==
    LET sqrt(n) == CHOOSE r \in 0..n : r * r <= n /\ (r + 1) * (r + 1) > n
        dotProduct == sumOfProducts(a, b, Len(a))
        normA == sumOfProducts(a, a, Len(a))
        normB == sumOfProducts(b, b, Len(a))
    IN
    IF Len(a) # Len(b) THEN [threw |-> TRUE, score |-> 0]
    ELSE IF normA = 0 \/ normB = 0 THEN [threw |-> FALSE, score |-> 0]
    ELSE [threw |-> FALSE, score |-> (100 * dotProduct) \div (sqrt(normA) * sqrt(normB))]

\* fs.readFile and JSON.parse of loadEmbeddingsFromPath succeed on the file
readable(f) == "eacces" \notin DOMAIN f
parsable(f) == "raw" \notin DOMAIN f

\* the vector documents under a root
vectorsUnder(loc) == {p \in DOMAIN vecs : localityOfPath(p) = loc}

\* the orders in which readdir may list the files of a set
Orders(S) ==
    {o \in [1..Cardinality(S) -> S] : \A i, j \in 1..Cardinality(S) : o[i] = o[j] => i = j}

\* the orders in which a scan may meet the vector documents of the two roots
ScanOrders ==
    {[project |-> po, user |-> uo] :
        po \in Orders(vectorsUnder("project")), uo \in Orders(vectorsUnder("user"))}

\* loadEmbeddingsFromPath: the documents of a root that load, in scan order
loadEmbeddingsFromPath(loc, order) ==
    IF RootOf(loc) \notin dirs THEN <<>>
    ELSE SelectSeq(order, LAMBDA p : readable(vecs[p]) /\ parsable(vecs[p]))

\* allEmbeddings of search and listRecent
allEmbeddings(type, order) ==
    (IF type \in {"both", "project"}
     THEN loadEmbeddingsFromPath("project", order.project) ELSE <<>>)
    \o (IF type \in {"both", "user"}
        THEN loadEmbeddingsFromPath("user", order.user) ELSE <<>>)

\* the section test of search's filter
hasMatchingSection(sections, f) ==
    \E i \in 1..Len(sections) : \E t \in f.sections :
        Includes(toLowerCase(Chars(t)), toLowerCase(Chars(sections[i])))

\* Array.prototype.slice(0, end)
slice(s, end) ==
    LET e == IF end < 0 THEN (IF Len(s) + end < 0 THEN 0 ELSE Len(s) + end)
             ELSE IF end > Len(s) THEN Len(s) ELSE end
    IN SubSeq(s, 1, e)

\* Array.prototype.sort with the comparator (a, b) => b[field] - a[field]: stable
RECURSIVE insertDescending(_, _, _)
insertDescending(r, sorted, field) ==
    IF sorted = <<>> THEN <<r>>
    ELSE IF Head(sorted)[field] >= r[field]
         THEN <<Head(sorted)>> \o insertDescending(r, Tail(sorted), field)
         ELSE <<r>> \o sorted

RECURSIVE sortDescending(_, _)
sortDescending(rs, field) ==
    IF rs = <<>> THEN <<>>
    ELSE insertDescending(rs[Len(rs)], sortDescending(SubSeq(rs, 1, Len(rs) - 1), field),
                          field)

TypeError == <<"", "TypeError">>

\* what the map callback of search raises on a document, if anything
scoringError(f) ==
    IF "embedding" \notin DOMAIN f THEN TypeError
    ELSE IF cosineSimilarity(QueryEmbedding, f.embedding).threw THEN <<"", "Vectors must have same length">>
    ELSE IF "text" \notin DOMAIN f THEN TypeError
    ELSE Returned

\* the first error in the outcomes of a callback over a list, if any
firstError(outcomes) ==
    IF \A i \in 1..Len(outcomes) : outcomes[i] = Returned THEN Returned
    ELSE outcomes[CHOOSE i \in 1..Len(outcomes) :
                      /\ outcomes[i] # Returned
                      /\ \A j \in 1..(i - 1) : outcomes[j] = Returned]

\* the options of a search: limit, minScore (in hundredths) and sections
DefaultOptions == [limit |-> 10, minScore |-> 10, sections |-> <<>>]

\* the local branch of search after the query vector is there: filter, score,
\* threshold, sort, cut
rank(type, options, order) ==
    LET all == allEmbeddings(type, order)
        filterError(f) ==
            IF options.sections # <<>> /\ "sections" \notin DOMAIN f
            THEN TypeError ELSE Returned
        e1 == firstError([i \in 1..Len(all) |-> filterError(vecs[all[i]])])
        filtered == IF options.sections = <<>> THEN all
                    ELSE SelectSeq(all, LAMBDA p : hasMatchingSection(options.sections, vecs[p]))
        e2 == firstError([i \in 1..Len(filtered) |-> scoringError(vecs[filtered[i]])])
        scored == [i \in 1..Len(filtered) |->
                      [path |-> vecs[filtered[i]].path,
                       score |-> cosineSimilarity(QueryEmbedding,
                                                  vecs[filtered[i]].embedding).score,
                       timestamp |-> vecs[filtered[i]].timestamp]]
        kept == SelectSeq(scored, LAMBDA r : r.score >= options.minScore)
    IN
    IF e1 # Returned THEN [result |-> e1, matched |-> {}, results |-> <<>>]
    ELSE IF e2 # Returned
    THEN [result |-> e2, matched |-> {filtered[i] : i \in 1..Len(filtered)},
          results |-> <<>>]
    ELSE [result |-> Returned, matched |-> {filtered[i] : i \in 1..Len(filtered)},
          results |-> slice(sortDescending(kept, "score"), options.limit)]

\* the local branch of listRecent: sort by time, cut, describe
recent(type, limit, order) ==
    LET all == allEmbeddings(type, order)
        dated == [i \in 1..Len(all) |->
                     [file |-> all[i], timestamp |-> vecs[all[i]].timestamp]]
        cut == slice(sortDescending(dated, "timestamp"), limit)
        listed == [i \in 1..Len(cut) |-> cut[i].file]
        excerptError(f) == IF "text" \notin DOMAIN f THEN TypeError ELSE Returned
        e == firstError([i \in 1..Len(listed) |-> excerptError(vecs[listed[i]])])
    IN
    IF e # Returned THEN [result |-> e, results |-> <<>>]
    ELSE [result |-> Returned,
          results |-> [i \in 1..Len(listed) |->
                          [path |-> vecs[listed[i]].path, score |-> 100,
                           timestamp |-> vecs[listed[i]].timestamp]]]

\* the environment's choices that bear on a search
SearchChoices ==
    IF usesRemote
    THEN {[loadOk |-> TRUE, genOk |-> TRUE, outcome |-> o,
           order |-> CHOOSE so \in ScanOrders : TRUE] : o \in RemoteOutcomes}
    ELSE {[loadOk |-> l, genOk |-> g, outcome |-> "ok", order |-> so] :
             l \in IF ~extractor /\ initPromise = "none" THEN BOOLEAN ELSE {TRUE},
             g \in IF extractor \/ initPromise = "none" THEN BOOLEAN ELSE {TRUE},
             so \in ScanOrders} \ 
         {[loadOk |-> FALSE, genOk |-> FALSE, outcome |-> "ok", order |-> so] :
             so \in ScanOrders}

\* SearchService.search
Search(type, options, env) ==
    LET g == generateEmbedding(env.loadOk, env.genOk)
        req == [op |-> "search", arg |-> type, options |-> options]
        r == rank(type, options, env.order)
    IN
    /\ IF usesRemote
       THEN /\ last' = req @@ remoteQuery(SearchPrefix, env.outcome)
                           @@ [matched |-> {}, results |-> <<>>]
            /\ UNCHANGED <<extractor, initPromise>>
       ELSE /\ extractor' = g.extractor
            /\ initPromise' = g.initPromise
            /\ last' = IF g.ok
                       THEN req @@ [reads |-> loadedVectors(type), remote |-> "none"] @@ r
                       ELSE req @@ [reads |-> {}, remote |-> "none",
                                    result |-> <<"", "embedding">>,
                                    matched |-> {}, results |-> <<>>]
    /\ UNCHANGED <<calls, loads, remoteConfig, now, dirs, docs, vecs, writes, remoteStore,
                   pathIn, pathOut>>

\* resources/list: getJournalResources logs a listing error and carries on
ListResources(outcome) ==
    LET req == [op |-> "resources/list", arg |-> "both"]
        r == IF usesRemote THEN remoteQuery(ListPrefix, outcome)
             ELSE [reads |-> loadedVectors("both"), remote |-> "none", result |-> Returned]
        recentEntries ==
            IF usesRemote
            THEN IF r.result = Returned
                 THEN {[path |-> RemoteId, type |-> "project"] : e \in remoteStore}
                 ELSE {}
            ELSE LET l == recent("both", 50, CHOOSE so \in ScanOrders : TRUE) IN
                 {[path |-> l.results[i].path, type |-> localityOfPath(l.results[i].path)] :
                     i \in 1..Len(l.results)}
    IN
    /\ last' = req @@ [reads |-> r.reads, remote |-> r.remote, result |-> Returned,
                       uris |-> {createJournalUri(e.path, e.type) : e \in recentEntries}]
    /\ UNCHANGED <<calls, loads, remoteConfig, now, extractor, initPromise, dirs, docs, vecs, writes,
                   remoteStore, pathIn, pathOut>>

\* the environment's choices that bear on a listing
ListChoices ==
    IF usesRemote
    THEN {[outcome |-> o, order |-> CHOOSE so \in ScanOrders : TRUE] : o \in RemoteOutcomes}
    ELSE {[outcome |-> "ok", order |-> so] : so \in ScanOrders}

\* SearchService.listRecent with the default limit
ListRecent(type, env) ==
    LET req == [op |-> "listRecent", arg |-> type] IN
    /\ last' = IF usesRemote
               THEN req @@ remoteQuery(ListPrefix, env.outcome) @@ [results |-> <<>>]
               ELSE req @@ [reads |-> loadedVectors(type), remote |-> "none"]
                        @@ recent(type, DefaultOptions.limit, env.order)
    /\ UNCHANGED <<calls, loads, remoteConfig, now, extractor, initPromise, dirs, docs, vecs, writes,
                   remoteStore, pathIn, pathOut>>

NoRequest == [op |-> "none"]

Init ==
    /\ remoteConfig \in RemoteConfigs
    /\ now = 0
    /\ extractor = FALSE
    /\ initPromise = "none"
    /\ dirs = {}
    /\ docs = NoFiles
    /\ vecs = NoFiles
    /\ writes = [w \in WriteIds |-> IdleWrite]
    /\ remoteStore = {}
    /\ last = NoRequest
    /\ calls = NoCalls
    /\ loads = 0
    /\ pathIn = <<>>
    /\ pathOut = "none"

Rands == 0..(MaxRand - 1)

Next ==
    \/ \E w \in WriteIds, content \in ContentInputs, rand \in Rands, ts \in Instants :
           StartEntry(w, content, rand, ts)
    \/ \E w \in WriteIds, thoughts \in ThoughtInputs, rand \in Rands, ts \in Instants :
           StartThoughts(w, thoughts, rand, ts)
    \/ \E w \in WriteIds, mkdirOk, writeOk \in BOOLEAN : WriteFile(w, mkdirOk, writeOk)
    \/ \E w \in WriteIds, loadOk, genOk, saveOk \in BOOLEAN, rand \in Rands :
           GenerateEmbeddingForEntry(w, loadOk, genOk, saveOk, rand)
    \/ \E w \in WriteIds, loadOk, genOk \in BOOLEAN, outcome \in RemoteOutcomes :
           TryRemotePost(w, loadOk, genOk, outcome)

Spec == Init /\ [][Next]_vars

(***************************************************************************)
(* The server answering requests around one write call                     *)
(***************************************************************************)
ServeIds == 1..ServeWrites

NextServe ==
    \/ \E w \in ServeIds, content \in ContentInputs, rand \in Rands :
           StartEntry(w, content, rand, now)
    \/ \E w \in ServeIds, thoughts \in ThoughtInputs, rand \in Rands :
           StartThoughts(w, thoughts, rand, now)
    \/ \E w \in ServeIds, mkdirOk, writeOk \in BOOLEAN : WriteFile(w, mkdirOk, writeOk)
    \/ \E w \in ServeIds, loadOk, genOk, saveOk \in BOOLEAN, rand \in Rands :
           GenerateEmbeddingForEntry(w, loadOk, genOk, saveOk, rand)
    \/ \E w \in ServeIds, loadOk, genOk \in BOOLEAN, outcome \in RemoteOutcomes :
           TryRemotePost(w, loadOk, genOk, outcome)
    \/ \E path \in CallerPaths \cup DOMAIN docs, env \in ReadChoices :
           ReadJournalEntry(path, env)
    \/ \E uri \in CallerUris \cup {createJournalUri(p, localityOfPath(p)) : p \in DOMAIN docs}
                       \cup (IF last.op = "resources/list" THEN last.uris ELSE {}),
          env \in ReadChoices :
           ReadResource(uri, env)
    \/ \E type \in SearchTypes, env \in SearchChoices : Search(type, DefaultOptions, env)
    \/ \E type \in SearchTypes, env \in ListChoices : ListRecent(type, env)
    \/ \E env \in ListChoices : ListResources(env.outcome)

SpecServe == Init /\ [][NextServe]_vars

(***************************************************************************)
(* Retrieval over a stored corpus: the vector documents of earlier runs    *)
(* are on disk, some of them damaged, and the service is queried.          *)
(***************************************************************************)
\* the i-th stored document: its root, the instant and the random part of its name
slotLocality(i) == IF i % 3 = 1 THEN "project" ELSE "user"
slotInstant(i) == i % 2
slotPath(i) == filePathOf(slotLocality(i), slotInstant(i), i)

\* the embeddings stored documents hold: scores 100 and 96 against the query
StoredEmbeddings == {<<3, 4>>, <<4, 3>>}
\* the sections stored documents of each root were written with
StoredSections(loc) ==
    IF loc = "project" THEN {{"project_notes"}}
    ELSE {{"feelings"}, {"technical_insights", "user_context"}}

\* what may be found where a vector document is expected
StoredForms ==
    {[kind |-> k, embedding |-> <<3, 4>>, keys |-> {}] :
        k \in {"absent", "unreadable", "unparsable", "lacksFields", "wrongLength"}}
    \cup {[kind |-> "valid", embedding |-> v, keys |-> s] :
             v \in StoredEmbeddings,
             s \in StoredSections("project") \cup StoredSections("user")}

\* the content of the vector document of slot i in a given form
storedVector(i, form) ==
    CASE form.kind = "unreadable" -> [eacces |-> TRUE]
      [] form.kind = "unparsable" -> [raw |-> "garbage"]
      [] form.kind = "lacksFields" -> [timestamp |-> slotInstant(i), path |-> slotPath(i)]
      [] OTHER ->
             [writer |-> 0,
              embedding |-> IF form.kind = "wrongLength" THEN <<5>> ELSE form.embedding,
              text |-> "text", timestamp |-> slotInstant(i),
              sections |-> {sectionTitle(k) : k \in
                               IF form.kind = "wrongLength"
                               THEN CHOOSE s \in StoredSections(slotLocality(i)) : TRUE
                               ELSE form.keys},
              path |-> slotPath(i)]

\* the content document next to it
storedDocument(i, form) ==
    LET keys == IF form.kind = "valid" THEN form.keys
                ELSE CHOOSE s \in StoredSections(slotLocality(i)) : TRUE
    IN [writer |-> 0, timestamp |-> slotInstant(i), kind |-> "thoughts",
        sections |-> keys, text |-> TRUE]

Corpora ==
    {c \in [1..MaxVectors -> StoredForms] :
        \A i \in 1..MaxVectors :
            c[i].kind = "valid" => c[i].keys \in StoredSections(slotLocality(i))}

InitSearch ==
    /\ remoteConfig = NoRemote
    /\ now = 1
    /\ extractor = FALSE
    /\ initPromise = "none"
    /\ \E c \in Corpora :
           LET present == {i \in 1..MaxVectors : c[i].kind # "absent"} IN
           /\ dirs = UNION {{RootOf(slotLocality(i)),
                             dayDirectory(slotLocality(i), slotInstant(i))} : i \in present}
           /\ docs = [p \in {slotPath(i) : i \in present} |->
                         LET i == CHOOSE j \in present : slotPath(j) = p
                         IN storedDocument(i, c[i])]
           /\ vecs = [p \in {embeddingPathOf(slotPath(i)) : i \in present} |->
                         LET i == CHOOSE j \in present : embeddingPathOf(slotPath(j)) = p
                         IN storedVector(i, c[i])]
    /\ writes = [w \in WriteIds |-> IdleWrite]
    /\ remoteStore = {}
    /\ last = NoRequest
    /\ calls = NoCalls
    /\ loads = 0
    /\ pathIn = <<>>
    /\ pathOut = "none"

\* the options callers pass to search
SearchOptions ==
    {[limit |-> l, minScore |-> s, sections |-> f] :
        l \in {-1, 0, 1, DefaultOptions.limit},
        s \in {DefaultOptions.minScore, 97},
        f \in {<<>>} \cup {<<k>> : k \in SectionKeySet}}

\* one request is served against each corpus: a request changes nothing on
\* disk, so a later one finds what the first one found
NextSearch ==
    \/ \E type \in {"both", "user"}, options \in SearchOptions, env \in SearchChoices :
           last = NoRequest /\ Search(type, options, env)
    \/ \E type \in SearchTypes, env \in ListChoices :
           last = NoRequest /\ ListRecent(type, env)

SpecSearch == InitSearch /\ [][NextSearch]_vars

(***************************************************************************)
(* Backfill: generateMissingEmbeddings over the content documents of       *)
(* earlier runs, some of which have no vector document.                    *)
(***************************************************************************)
\* parseInt of two digits
parseInt(s) ==
    LET DigitVal(ch) == CHOOSE d \in 0..9 : Digit(d) = ch
    IN (10 * DigitVal(s[1])) + DigitVal(s[2])

\* extractTimestampFromPath: the date of the day folder and the hours,
\* minutes and seconds of the file name; the milliseconds are not recovered
extractTimestampFromPath(filePath) ==
    LET n == Len(filePath)
        filename == SubSeq(filePath, n - 17, n - 3)
        dirName == SubSeq(filePath, n - 28, n - 19)
        day == parseInt(SubSeq(dirName, 9, 10))
        hours == parseInt(SubSeq(filename, 1, 2))
        minutes == parseInt(SubSeq(filename, 4, 5))
        seconds == parseInt(SubSeq(filename, 7, 8))
    IN ((day - 10) * 86400000) + (hours * 3600000) + (minutes * 60000) + (seconds * 1000)

\* the content documents under a root
documentsUnder(loc) == {p \in DOMAIN docs : localityOfPath(p) = loc}

\* the content documents that have no vector document
missingEmbeddings == {p \in DOMAIN docs : embeddingPathOf(p) \notin DOMAIN vecs}

\* the loop over the .md files of a day folder, in the order listed.  acc is
\* the run so far; env.outcome tells what happens to each document: "ok",
\* "unreadable" (fs.readFile fails) or "fails" (the vector is not produced)
RECURSIVE backfillFiles(_, _, _)
backfillFiles(files, acc, env) ==
    IF files = <<>> THEN acc
    ELSE
        LET mdPath == Head(files)
            g == generateEmbeddingFrom(acc, env.loadOk, env.outcome[mdPath] = "ok")
            skipped == ~docs[mdPath].text
            saved == ~skipped /\ g.ok
            embeddingData ==
                [writer |-> 0, embedding |-> DocumentEmbedding, text |-> "text",
                 timestamp |-> extractTimestampFromPath(mdPath),
                 sections |-> {sectionTitle(k) : k \in docs[mdPath].sections},
                 path |-> mdPath]
        IN
        IF embeddingPathOf(mdPath) \in DOMAIN acc.vecs
        THEN backfillFiles(Tail(files), acc, env)
        ELSE IF env.outcome[mdPath] = "unreadable"
        THEN [acc EXCEPT !.aborted = @ \cup {localityOfPath(mdPath)}]
        ELSE backfillFiles(Tail(files),
                 [acc EXCEPT
                     !.extractor = IF skipped THEN @ ELSE g.extractor,
                     !.initPromise = IF skipped THEN @ ELSE g.initPromise,
                     !.vecs = IF saved
                              THEN PutFile(@, embeddingPathOf(mdPath), embeddingData)
                              ELSE @,
                     !.saved = IF saved THEN @ \cup {mdPath} ELSE @,
                     !.processed = @ \cup {mdPath},
                     !.count = @ + 1],
                 env)

\* the body of the loop over the roots: a missing root is passed over, and a
\* failure to list the root or its day folder ends the root
backfillRoot(loc, acc, env) ==
    IF RootOf(loc) \notin dirs THEN acc
    ELSE IF env.scan[loc] # "ok" THEN [acc EXCEPT !.failed = @ \cup {loc}]
    ELSE backfillFiles(env.order[loc], acc, env)

\* variant: the catch block around the scan of a root passing the error on
scanErrorPassedOn(acc) == acc.failed # {} \/ acc.aborted # {}

\* the catch block around the scan of a root: is the error passed on?
scanErrorRaised(acc) == FALSE

\* the environment's choices that bear on a run
BackfillChoices ==
    {[scan |-> s, order |-> [project |-> po, user |-> uo], loadOk |-> l, outcome |-> f] :
        s \in {t \in [Localities -> {"ok", "EPERM"}] :
                  \A loc \in Localities : RootOf(loc) \notin dirs => t[loc] = "ok"},
        po \in Orders(documentsUnder("project")),
        uo \in Orders(documentsUnder("user")),
        l \in IF ~extractor /\ initPromise = "none"
                   /\ \E p \in missingEmbeddings : docs[p].text
              THEN BOOLEAN ELSE {TRUE},
        f \in {h \in [DOMAIN docs -> {"ok", "unreadable", "fails"}] :
                  \A p \in DOMAIN docs :
                      /\ p \notin missingEmbeddings => h[p] = "ok"
                      /\ ~docs[p].text => h[p] # "fails"}}

\* JournalManager.generateMissingEmbeddings
GenerateMissingEmbeddings(env) ==
    LET run == IF last.op = "generateMissingEmbeddings" THEN last.run + 1 ELSE 1
        start == [vecs |-> vecs, extractor |-> extractor, initPromise |-> initPromise,
                  count |-> 0, processed |-> {}, saved |-> {}, aborted |-> {},
                  failed |-> {}]
        end == backfillRoot("user", backfillRoot("project", start, env), env)
    IN
    /\ run <= MaxRuns
    /\ vecs' = end.vecs
    /\ extractor' = end.extractor
    /\ initPromise' = end.initPromise
    /\ last' = [op |-> "generateMissingEmbeddings", run |-> run, missing |-> missingEmbeddings,
                count |-> end.count, processed |-> end.processed, saved |-> end.saved,
                unreadable |-> {p \in missingEmbeddings : env.outcome[p] = "unreadable"},
                aborted |-> end.aborted, failed |-> end.failed,
                result |-> IF scanErrorRaised(end) THEN <<"", "EPERM">> ELSE Returned]
    /\ UNCHANGED <<calls, loads, remoteConfig, now, dirs, docs, writes, remoteStore, pathIn, pathOut>>

\* a stored content document may be there with its vector document
\* (embedded), without one (pending), or without one and with no searchable
\* text (empty: an entry of empty content under the project root, thoughts of
\* empty sections under the user root)
InitBackfill ==
    /\ remoteConfig = NoRemote
    /\ now = 1
    /\ extractor = FALSE
    /\ initPromise = "none"
    /\ \E c \in [1..MaxVectors -> {"absent", "embedded", "pending", "empty"}] :
           LET present == {i \in 1..MaxVectors : c[i] # "absent"}
               keys(i) == IF c[i] = "empty" THEN {}
                          ELSE CHOOSE s \in StoredSections(slotLocality(i)) : TRUE
           IN
           /\ dirs = UNION {{RootOf(slotLocality(i)),
                             dayDirectory(slotLocality(i), slotInstant(i))} : i \in present}
           /\ docs = [p \in {slotPath(i) : i \in present} |->
                         LET i == CHOOSE j \in present : slotPath(j) = p
                         IN [writer |-> 0, timestamp |-> slotInstant(i),
                             kind |-> IF c[i] = "empty" /\ slotLocality(i) = "project"
                                      THEN "entry" ELSE "thoughts",
                             sections |-> keys(i), text |-> c[i] # "empty"]]
           /\ vecs = [p \in {embeddingPathOf(slotPath(i)) :
                                i \in {j \in present : c[j] = "embedded"}} |->
                         LET i == CHOOSE j \in present : embeddingPathOf(slotPath(j)) = p
                         IN storedVector(i, [kind |-> "valid", embedding |-> DocumentEmbedding,
                                             keys |-> keys(i)])]
    /\ writes = [w \in WriteIds |-> IdleWrite]
    /\ remoteStore = {}
    /\ last = NoRequest
    /\ calls = NoCalls
    /\ loads = 0
    /\ pathIn = <<>>
    /\ pathOut = "none"

NextBackfill == \E env \in BackfillChoices : GenerateMissingEmbeddings(env)

SpecBackfill == InitBackfill /\ [][NextBackfill]_vars

(***************************************************************************)
(* EmbeddingService under concurrent callers: generateEmbedding suspends   *)
(* at each await, so that calls interleave.                                *)
(***************************************************************************)
LoadError == <<"", "Failed to load embedding model">>

\* a call not yet made; entered tells what the call found on entry
IdleCall == [pc |-> "idle", entered |-> "none", result |-> Pending]

\* variant: initialize starting the loader whenever none has succeeded
initializeStartsUnlessResolved == initPromise # "resolved"

\* variant: initialize starting the loader again after a failed load
initializeRetries == initPromise \in {"none", "rejected"}

\* initialize: doInitialize is started only when no initPromise is held
initializeStarts == initPromise = "none"

\* generateEmbedding up to its first await: with no extractor it awaits
\* initialize(), which starts the loader or hands out the promise held
CallGenerateEmbedding(c) ==
    /\ calls[c].pc = "idle"
    /\ IF extractor
       THEN /\ calls' = [calls EXCEPT ![c] = [@ EXCEPT !.pc = "extract", !.entered = "loaded"]]
            /\ UNCHANGED <<initPromise, loads>>
       ELSE /\ calls' = [calls EXCEPT ![c] = [@ EXCEPT !.pc = "await",
                                                      !.entered = initPromise]]
            /\ IF initializeStarts
               THEN /\ initPromise' = "pending"
                    /\ loads' = loads + 1
               ELSE UNCHANGED <<initPromise, loads>>
    /\ UNCHANGED <<remoteConfig, now, extractor, dirs, docs, vecs, writes, remoteStore,
                   last, pathIn, pathOut>>

\* doInitialize: pipeline() settles, and with it the promise
FinishLoad(loadOk) ==
    /\ initPromise = "pending"
    /\ extractor' = loadOk
    /\ initPromise' = IF loadOk THEN "resolved" ELSE "rejected"
    /\ UNCHANGED <<remoteConfig, now, dirs, docs, vecs, writes, remoteStore, last,
                   pathIn, pathOut, calls, loads>>

\* generateEmbedding after await initialize(): the rejection is raised, or the
\* extractor tested
ResumeGenerateEmbedding(c) ==
    /\ calls[c].pc = "await"
    /\ initPromise \in {"resolved", "rejected"}
    /\ calls' = [calls EXCEPT ![c] =
                    IF initPromise = "rejected"
                    THEN [@ EXCEPT !.pc = "done", !.result = LoadError]
                    ELSE IF ~extractor
                    THEN [@ EXCEPT !.pc = "done",
                                   !.result = <<"", "Embedding model not initialized">>]
                    ELSE [@ EXCEPT !.pc = "extract"]]
    /\ UNCHANGED <<remoteConfig, now, extractor, initPromise, dirs, docs, vecs, writes,
                   remoteStore, last, pathIn, pathOut, loads>>

\* generateEmbedding: the extractor call settles
Extract(c, genOk) ==
    /\ calls[c].pc = "extract"
    /\ calls' = [calls EXCEPT ![c] =
                    [@ EXCEPT !.pc = "done",
                              !.result = IF genOk THEN Returned
                                         ELSE <<"Failed to generate embedding: ", "error">>]]
    /\ UNCHANGED <<remoteConfig, now, extractor, initPromise, dirs, docs, vecs, writes,
                   remoteStore, last, pathIn, pathOut, loads>>

InitEmbed ==
    /\ remoteConfig = NoRemote
    /\ now = 0
    /\ extractor = FALSE
    /\ initPromise = "none"
    /\ dirs = {}
    /\ docs = NoFiles
    /\ vecs = NoFiles
    /\ writes = [w \in WriteIds |-> IdleWrite]
    /\ remoteStore = {}
    /\ last = NoRequest
    /\ pathIn = <<>>
    /\ pathOut = "none"
    /\ calls = [c \in 1..MaxCalls |-> IdleCall]
    /\ loads = 0

NextEmbed ==
    \/ \E c \in 1..MaxCalls : CallGenerateEmbedding(c)
    \/ \E loadOk \in BOOLEAN : FinishLoad(loadOk)
    \/ \E c \in 1..MaxCalls : ResumeGenerateEmbedding(c)
    \/ \E c \in 1..MaxCalls, genOk \in BOOLEAN : Extract(c, genOk)

SpecEmbed == InitEmbed /\ [][NextEmbed]_vars

(***************************************************************************)
(* generateMissingEmbeddings step by step: a run suspends at each await,   *)
(* so that two runs and a search interleave.  The model is loaded.         *)
(***************************************************************************)
\* a run before its first step: roots are the roots still to scan, files the
\* .md files still to visit under the root being scanned
IdleRun == [pc |-> "root", roots |-> <<"project", "user">>, files |-> <<>>,
            generated |-> {}, repeated |-> FALSE, saved |-> {}]

\* the run's step to the next file
nextFile(run) == [run EXCEPT !.pc = "access", !.files = Tail(@)]

\* the catch block around a root: the rest of the root is given up
nextRoot(run) == [run EXCEPT !.pc = "root", !.roots = Tail(@), !.files = <<>>]

\* what saveEmbedding's fs.writeFile leaves between opening the file, which
\* empties it, and the end of the write
PartialFile == [raw |-> "partial"]

\* fs.writeFile opening its target with flag 'w': created or emptied
openTruncates(files, embeddingPath) == PutFile(files, embeddingPath, PartialFile)

\* fs.readdir of a root and of its day folders, or the return after the last root
ScanRoot(r, order, scanOk) ==
    LET run == calls[r] IN
    /\ run.pc = "root"
    /\ calls' = [calls EXCEPT ![r] =
                    IF run.roots = <<>> THEN [run EXCEPT !.pc = "done"]
                    ELSE IF RootOf(Head(run.roots)) \notin dirs \/ ~scanOk
                    THEN nextRoot(run)
                    ELSE [run EXCEPT !.pc = "access", !.files = order]]
    /\ UNCHANGED <<remoteConfig, now, extractor, initPromise, dirs, docs, vecs, writes,
                   remoteStore, last, pathIn, pathOut, loads>>

\* fs.access(embeddingPath): a file that is there, whatever it holds, is skipped
AccessEmbedding(r) ==
    LET run == calls[r] IN
    /\ run.pc = "access"
    /\ calls' = [calls EXCEPT ![r] =
                    IF run.files = <<>> THEN nextRoot(run)
                    ELSE IF embeddingPathOf(Head(run.files)) \in DOMAIN vecs
                    THEN nextFile(run)
                    ELSE [run EXCEPT !.pc = "read"]]
    /\ UNCHANGED <<remoteConfig, now, extractor, initPromise, dirs, docs, vecs, writes,
                   remoteStore, last, pathIn, pathOut, loads>>

\* fs.readFile(mdPath) and generateEmbeddingForEntry up to saveEmbedding
ReadAndEmbed(r, readOk, genOk) ==
    LET run == calls[r]
        mdPath == Head(run.files)
    IN
    /\ run.pc = "read"
    /\ calls' = [calls EXCEPT ![r] =
                    IF ~readOk THEN nextRoot(run)
                    ELSE IF ~docs[mdPath].text \/ ~generateEmbedding(TRUE, genOk).ok
                    THEN nextFile(run)
                    ELSE [run EXCEPT !.pc = "save", !.generated = @ \cup {mdPath},
                                      !.repeated = @ \/ mdPath \in run.generated]]
    /\ UNCHANGED <<remoteConfig, now, extractor, initPromise, dirs, docs, vecs, writes,
                   remoteStore, last, pathIn, pathOut, loads>>

\* saveEmbedding: fs.writeFile opens the vector document
OpenEmbedding(r, openOk) ==
    LET run == calls[r] IN
    /\ run.pc = "save"
    /\ IF openOk
       THEN /\ vecs' = openTruncates(vecs, embeddingPathOf(Head(run.files)))
            /\ calls' = [calls EXCEPT ![r] = [run EXCEPT !.pc = "write"]]
       ELSE /\ calls' = [calls EXCEPT ![r] = nextFile(run)]
            /\ UNCHANGED vecs
    /\ UNCHANGED <<remoteConfig, now, extractor, initPromise, dirs, docs, writes,
                   remoteStore, last, pathIn, pathOut, loads>>

\* saveEmbedding: fs.writeFile writes the record, or fails and leaves the file
\* as it is; the error is swallowed by generateEmbeddingForEntry
WriteEmbedding(r, writeOk) ==
    LET run == calls[r]
        mdPath == Head(run.files)
        embeddingData ==
            [writer |-> 0, embedding |-> DocumentEmbedding, text |-> "text",
             timestamp |-> extractTimestampFromPath(mdPath),
             sections |-> {sectionTitle(k) : k \in docs[mdPath].sections},
             path |-> mdPath]
    IN
    /\ run.pc = "write"
    /\ IF writeOk
       THEN /\ vecs' = PutFile(vecs, embeddingPathOf(mdPath), embeddingData)
            /\ calls' = [calls EXCEPT ![r] =
                            nextFile([run EXCEPT !.saved = @ \cup {mdPath}])]
       ELSE /\ calls' = [calls EXCEPT ![r] = nextFile(run)]
            /\ UNCHANGED vecs
    /\ UNCHANGED <<remoteConfig, now, extractor, initPromise, dirs, docs, writes,
                   remoteStore, last, pathIn, pathOut, loads>>

InitRace ==
    /\ remoteConfig = NoRemote
    /\ now = 1
    /\ extractor = TRUE
    /\ initPromise = "resolved"
    /\ \E c \in [1..MaxRaceDocs -> {"absent", "embedded", "pending", "empty"}] :
           LET present == {i \in 1..MaxRaceDocs : c[i] # "absent"}
               keys(i) == IF c[i] = "empty" THEN {}
                          ELSE CHOOSE s \in StoredSections(slotLocality(i)) : TRUE
           IN
           /\ dirs = UNION {{RootOf(slotLocality(i)),
                             dayDirectory(slotLocality(i), slotInstant(i))} : i \in present}
           /\ docs = [p \in {slotPath(i) : i \in present} |->
                         LET i == CHOOSE j \in present : slotPath(j) = p
                         IN storedDocument(i, [kind |-> "valid", keys |-> keys(i)])
                                @@ [text |-> c[i] # "empty"]]
           /\ vecs = [p \in {embeddingPathOf(slotPath(i)) :
                                i \in {j \in present : c[j] = "embedded"}} |->
                         LET i == CHOOSE j \in present : embeddingPathOf(slotPath(j)) = p
                         IN storedVector(i, [kind |-> "valid", embedding |-> DocumentEmbedding,
                                             keys |-> keys(i)])]
    /\ writes = [w \in WriteIds |-> IdleWrite]
    /\ remoteStore = {}
    /\ last = NoRequest
    /\ calls = [r \in 1..MaxRuns |-> IdleRun]
    /\ loads = 0
    /\ pathIn = <<>>
    /\ pathOut = "none"

NextRace ==
    \/ \E r \in 1..MaxRuns, scanOk \in BOOLEAN :
           \E order \in IF calls[r].roots = <<>> THEN {<<>>}
                        ELSE Orders(documentsUnder(Head(calls[r].roots))) :
               ScanRoot(r, order, scanOk)
    \/ \E r \in 1..MaxRuns : AccessEmbedding(r)
    \/ \E r \in 1..MaxRuns, readOk, genOk \in BOOLEAN : ReadAndEmbed(r, readOk, genOk)
    \/ \E r \in 1..MaxRuns, openOk \in BOOLEAN : OpenEmbedding(r, openOk)
    \/ \E r \in 1..MaxRuns, writeOk \in BOOLEAN : WriteEmbedding(r, writeOk)
    \/ /\ last = NoRequest
       /\ \E env \in SearchChoices : Search("both", DefaultOptions, env)

SpecRace == InitRace /\ [][NextRace]_vars

(***************************************************************************)
(* createJournalUri, isValidJournalUri and the decoding of                 *)
(* readJournalResource on drawn strings                                    *)
(***************************************************************************)
UriChars == {"/", ".", "p", "%", EAcute, LoneSurrogate}

UriPaths == UNION {[1..n -> UriChars] : n \in 0..MaxUriLen}

InitUri ==
    /\ remoteConfig = NoRemote
    /\ now = 0
    /\ extractor = FALSE
    /\ initPromise = "none"
    /\ dirs = {}
    /\ docs = NoFiles
    /\ vecs = NoFiles
    /\ writes = [w \in WriteIds |-> IdleWrite]
    /\ remoteStore = {}
    /\ last = NoRequest
    /\ calls = NoCalls
    /\ loads = 0
    /\ pathIn \in UriPaths
    /\ pathOut = "none"

\* the URI of pathIn built, tested and decoded
CreateAndDecode(type) ==
    LET uri == createJournalUri(pathIn, type) IN
    /\ last = NoRequest
    /\ last' = [op |-> "createJournalUri", type |-> type, uri |-> uri,
                valid |-> isValidJournalUri(uri),
                decoded |-> IF isValidJournalUri(uri) THEN decodeJournalUri(uri)
                            ELSE <<>>]
    /\ UNCHANGED <<remoteConfig, now, extractor, initPromise, dirs, docs, vecs, writes,
                   remoteStore, pathIn, pathOut, calls, loads>>

NextUri == \E type \in Localities : CreateAndDecode(type)

SpecUri == InitUri /\ [][NextUri]_vars

(***************************************************************************)
(* isPathSafe on its own, over paths assembled from a few fragments        *)
(***************************************************************************)
PathParts ==
    { <<"/">>, <<".">>, <<".", ".">>, <<"e", "t", "c">>, <<"t">>, <<"\\">>,
      <<"%">>, <<"%", "2", "e">>, <<"%", "2", "c">> }

PathInputs ==
    {Concat(parts) : parts \in UNION {[1..n -> PathParts] : n \in 0..MaxPathParts}}

InitPath ==
    /\ remoteConfig = NoRemote
    /\ now = 0
    /\ extractor = FALSE
    /\ initPromise = "none"
    /\ dirs = {}
    /\ docs = NoFiles
    /\ vecs = NoFiles
    /\ writes = [w \in WriteIds |-> IdleWrite]
    /\ remoteStore = {}
    /\ last = NoRequest
    /\ calls = NoCalls
    /\ loads = 0
    /\ pathIn \in PathInputs
    /\ pathOut = "none"

CheckPath ==
    /\ pathOut = "none"
    /\ pathOut' = isPathSafe(pathIn)
    /\ UNCHANGED <<calls, loads, remoteConfig, now, extractor, initPromise, dirs, docs, vecs, writes,
                   remoteStore, last, pathIn>>

NextPath == CheckPath

SpecPath == InitPath /\ [][NextPath]_vars

(***************************************************************************)
(* Properties                                                              *)
(***************************************************************************)
QueryOps == {"search", "listRecent", "read_journal_entry", "resources/read", "resources/list"}
ReadOps == {"read_journal_entry", "resources/read"}

StorageErrors == {<<"Failed to create journal directory: ", "EACCES">>, <<"", "EIO">>}

\* the content document call w wrote in locality loc is on disk
DocumentKept(w, c, loc) ==
    /\ c.file[loc] \in DOMAIN docs
    /\ docs[c.file[loc]].writer = w

\* C1: in remote-only mode, whatever writes, searches, listings and reads
\* were made and however their remote calls ended, the program has created
\* no directory, content document or vector document under either root,
\* and no request has read a local file.
C1_RemoteOnlyNeverLocal ==
    RemoteOnly =>
        /\ dirs = {}
        /\ DOMAIN docs = {}
        /\ DOMAIN vecs = {}
        /\ last.op \in QueryOps => last.reads = {}

\* a remote-only write whose post failed has returned
C1_Witness ==
    /\ RemoteOnly
    /\ last.op = "write"
    /\ last.call.post = "network"
    /\ dirs = {}

\* C2: in local and hybrid modes a write whose embedding step failed
\* (loading, generating or saving) still has its content document on disk
\* and no vector document beside it, and it returns normally unless a
\* file-system error of the write itself was raised.
C2_EmbeddingFailureKeepsEntry ==
    (~RemoteOnly /\ last.op = "write") =>
        \A loc \in Localities :
            last.call.emb[loc] = "failed" =>
                /\ DocumentKept(last.w, last.call, loc)
                /\ embeddingPathOf(last.call.file[loc]) \notin DOMAIN vecs
                /\ last.call.result \notin StorageErrors => last.call.result = Returned

\* a write returned normally although its embedding step failed
C2_Witness ==
    /\ ~RemoteOnly
    /\ last.op = "write"
    /\ last.call.result = Returned
    /\ \E loc \in Localities : last.call.emb[loc] = "failed"

\* C3: in hybrid mode a write whose remote post failed returns normally
\* and every content document it wrote is still on disk.
C3_HybridPostFailureNotRaised ==
    (RemoteEnabled /\ ~RemoteOnly /\ last.op = "write"
        /\ last.call.post \in RemoteFailures) =>
        /\ last.call.result = Returned
        /\ \A loc \in Localities :
               last.call.wrote[loc] => DocumentKept(last.w, last.call, loc)

\* a hybrid write stored a document locally and then failed to post it
C3_Witness ==
    /\ RemoteEnabled
    /\ ~RemoteOnly
    /\ last.op = "write"
    /\ last.call.post = "http500"
    /\ \E loc \in Localities : last.call.wrote[loc]

C5_EntriesNeverOverwritten ==
    [][\A p \in DOMAIN docs :
          (docs[p].kind = "entry" /\ docs'[p].kind = "entry") => docs'[p] = docs[p]]_vars

\* C6: a read_journal_entry call (local and hybrid modes) reads a file only
\* if isPathSafe is true of the path given, and a resource read only if the
\* URI is valid and isPathSafe is true of the decoded path; the file read is
\* that path and no other.
C6_ReadsAreValidated ==
    /\ (~RemoteOnly /\ last.op = "read_journal_entry" /\ last.reads # {}) =>
           /\ isPathSafe(last.arg) = "true"
           /\ last.reads = {last.arg}
    /\ (last.op = "resources/read" /\ last.reads # {}) =>
           /\ isValidJournalUri(last.arg)
           /\ isPathSafe(decodeJournalUri(last.arg)) = "true"
           /\ last.reads = {decodeJournalUri(last.arg)}

\* a stored document was read through read_journal_entry
C6_Witness ==
    /\ ~RemoteOnly
    /\ last.op = "read_journal_entry"
    /\ last.arg \in DOMAIN docs
    /\ last.reads = {last.arg}
    /\ last.result = Content

\* C7: every file read for a resource read or a read_journal_entry call is
\* of a path inside the project root or the user root.
C7_ReadsInsideRoots ==
    last.op \in ReadOps =>
        \A p \in last.reads : localityOfPath(normalize(p)) # "none"

\* "under a denied system root": the normalized path starts with the root
underDeniedRoot(p) == \E dangerous \in dangerousPaths : StartsWith(normalize(p), dangerous)

C9_RemoteCallsOnlyByMode ==
    /\ (last.op = "write" /\ last.call.post # "none") => RemoteEnabled
    /\ (last.op \in QueryOps /\ last.remote # "none") => RemoteOnly
    /\ remoteStore # {} => RemoteEnabled

\* a hybrid-mode search ran locally
C9_Witness ==
    /\ RemoteEnabled
    /\ ~RemoteOnly
    /\ last.op = "search"
    /\ last.remote = "none"
    /\ last.result = Returned

\* C10: a document written by writeThoughts holds project_notes only if it
\* is under the project root and any of the other four sections only if it
\* is under the user root; a call has at most one document per locality.
C10_StaticRouting ==
    /\ \A p \in DOMAIN docs :
          docs[p].kind = "thoughts" =>
             /\ "project_notes" \in docs[p].sections => localityOfPath(p) = "project"
             /\ docs[p].sections \cap {"feelings", "user_context", "technical_insights",
                                        "world_knowledge"} # {} => localityOfPath(p) = "user"
    /\ \A w \in WriteIds, loc \in Localities :
          Cardinality({p \in DOMAIN docs :
                         docs[p].writer = w /\ docs[p].kind = "thoughts"
                            /\ localityOfPath(p) = loc}) <= 1

\* one writeThoughts call has left a document under each root
C10_Witness ==
    \E p, q \in DOMAIN docs :
        /\ docs[p].writer = docs[q].writer
        /\ docs[p].kind = "thoughts"
        /\ docs[q].kind = "thoughts"
        /\ "project_notes" \in docs[p].sections
        /\ "world_knowledge" \in docs[q].sections

\* the directories and content documents the program has under a root
createdUnder(root) ==
    {d \in dirs : StartsWith(d, root)} \cup {p \in DOMAIN docs : StartsWith(p, root)}

\* C11: a returned writeThoughts call that was given no non-empty user
\* section has left no folder or document under the user root, and one given
\* no non-empty project_notes none under the project root.
C11_NoContentNoFiles ==
    (~RemoteOnly /\ last.op = "write" /\ last.call.kind = "thoughts") =>
        /\ (\A k \in SectionKeySet \ {"project_notes"} : ~Truthy(last.call.input[k])) =>
               createdUnder(UserRoot) = {}
        /\ ~Truthy(last.call.input["project_notes"]) => createdUnder(ProjectRoot) = {}

\* a writeThoughts call given only project_notes has returned
C11_Witness ==
    /\ ~RemoteOnly
    /\ last.op = "write"
    /\ last.call.kind = "thoughts"
    /\ Truthy(last.call.input["project_notes"])
    /\ last.call.input["feelings"] = "undef"
    /\ last.call.wrote["project"]
    /\ createdUnder(UserRoot) = {}

\* a local search that returned a list
searchReturned ==
    /\ last.op = "search"
    /\ last.remote = "none"
    /\ last.result = Returned

\* C12: the list a local search returns is ordered by non-increasing score,
\* holds only results scoring at least minScore, and is no longer than limit
\* (than zero, when limit is negative).
C12_RankedThresholdedCut ==
    searchReturned =>
        /\ \A i, j \in 1..Len(last.results) :
               i < j => last.results[i].score >= last.results[j].score
        /\ \A i \in 1..Len(last.results) : last.results[i].score >= last.options.minScore
        /\ Len(last.results) <= IF last.options.limit < 0 THEN 0 ELSE last.options.limit

\* a search cut its list of three candidates of two different scores down to one
C12_Witness ==
    /\ searchReturned
    /\ last.options.limit = 1
    /\ Cardinality(last.matched) = 3
    /\ \E p, q \in last.matched :
           cosineSimilarity(QueryEmbedding, vecs[p].embedding).score
               > cosineSimilarity(QueryEmbedding, vecs[q].embedding).score
    /\ Len(last.results) = 1
    /\ last.results[1].score = 100

\* a vector document that is whole: readable, parsable, holding its fields
\* and an embedding as long as the query's
sound(f) ==
    /\ readable(f)
    /\ parsable(f)
    /\ {"embedding", "text", "sections", "timestamp", "path"} \subseteq DOMAIN f
    /\ Len(f.embedding) = Len(QueryEmbedding)

\* the content documents whose vector document, under a root the type selects,
\* is whole
soundEntries(type) == {vecs[p].path : p \in {q \in loadedVectors(type) : sound(vecs[q])}}

\* the content documents a returned list names
listedEntries == {last.results[i].path : i \in 1..Len(last.results)}

\* C13: a local search or listRecent whose query vector was produced never
\* fails, and with the default limit, threshold and no section filter it
\* returns exactly the entries whose vector document is whole.
C13_BadVectorsSkipped ==
    /\ (last.op \in {"search", "listRecent"} /\ last.remote = "none"
            /\ last.result # <<"", "embedding">>) => last.result = Returned
    /\ (searchReturned /\ last.options = DefaultOptions) =>
           listedEntries = soundEntries(last.arg)
    /\ (last.op = "listRecent" /\ last.remote = "none" /\ last.result = Returned) =>
           listedEntries = soundEntries(last.arg)

\* a search over an unparsable, an unreadable and a whole vector document
\* returned the whole one
C13_Witness ==
    /\ searchReturned
    /\ \E p \in last.reads : ~parsable(vecs[p])
    /\ \E p \in last.reads : ~readable(vecs[p])
    /\ Len(last.results) = 1
    /\ listedEntries = soundEntries(last.arg)

\* the loaded vector documents of entries written with the section of key k
writtenWith(type, k) ==
    {p \in loadedVectors(type) :
        readable(vecs[p]) /\ parsable(vecs[p]) /\ sectionTitle(k) \in vecs[p].sections}

\* C14: a local search filtered by one section key keeps exactly the loaded
\* entries that were written with that section.
C14_SectionKeyFilters ==
    \A k \in SectionKeySet :
        (searchReturned /\ last.options.sections = <<k>>) =>
            last.matched = writtenWith(last.arg, k)

\* a search filtered by the key feelings kept an entry written with that
\* section and dropped one written without it
C14_Witness ==
    /\ searchReturned
    /\ last.options.sections = <<"feelings">>
    /\ last.matched # {}
    /\ last.matched = writtenWith(last.arg, "feelings")
    /\ \E p \in last.reads : sound(vecs[p]) /\ p \notin last.matched

\* a read request that reached readEntry
readEntryCalled == last.op \in ReadOps /\ last.entry # NotCalled

\* C15: in remote-only mode readEntry answers an identifier holding '/' or
\* '\' with the usage error, and no request goes to the remote server.
C15_SeparatorRejectedBeforeRemote ==
    (RemoteOnly /\ readEntryCalled
        /\ (Includes(last.entry.path, <<"/">>) \/ Includes(last.entry.path, <<"\\">>))) =>
        /\ last.entry.result = LocalFileError
        /\ last.remote = "none"

\* in remote-only mode with a server configured, an identifier with a
\* backslash and no slash was rejected
C15_Witness ==
    /\ RemoteOnly
    /\ RemoteEnabled
    /\ readEntryCalled
    /\ last.entry.path = PathBackslash
    /\ last.entry.result = LocalFileError
    /\ last.remote = "none"

\* C16: readEntry answers a file that does not exist, and a 404 of the remote
\* server, with null; every other failure of the read or of the request it
\* raises; and it answers null for nothing else.
C16_MissingIsNullOthersRaised ==
    readEntryCalled =>
        /\ last.entry.fs = "ENOENT" => last.entry.result = Null
        /\ last.remote = "404" => last.entry.result = Null
        /\ last.entry.fs = "EACCES" => last.entry.result = <<"", "EACCES">>
        /\ last.remote \in RemoteFailures => last.entry.result = <<"", last.remote>>
        /\ last.entry.result = Null => (last.entry.fs = "ENOENT" \/ last.remote = "404")

\* a local read of a file that does not exist returned null
C16_Witness ==
    /\ ~RemoteOnly
    /\ readEntryCalled
    /\ last.entry.fs = "ENOENT"
    /\ last.entry.result = Null

\* a run of generateMissingEmbeddings has ended
backfillEnded == last.op = "generateMissingEmbeddings"

\* C17: the number generateMissingEmbeddings returns is the number of vector
\* documents the run generated and saved.
C17_CountsSavedVectors ==
    backfillEnded => last.count = Cardinality(last.saved)

\* a run over two documents lacking a vector saved both and returned 2
C17_Witness ==
    /\ backfillEnded
    /\ Cardinality(last.missing) = 2
    /\ last.saved = last.missing
    /\ last.count = 2

\* C18: in a run, every readable content document that lacked a vector, under
\* a root whose listing succeeded, was processed, whatever documents beside it
\* were unreadable.
C18_UnreadableDocumentSkipped ==
    backfillEnded =>
        \A p \in last.missing :
            (p \notin last.unreadable /\ localityOfPath(p) \notin last.failed) =>
                p \in last.processed

\* a run met an unreadable document in one root and still processed a
\* document of the other root
C18_Witness ==
    /\ backfillEnded
    /\ \E p \in last.unreadable, q \in last.processed :
           /\ localityOfPath(p) = "project"
           /\ localityOfPath(q) = "user"
    /\ last.aborted = {"project"}

\* a root was missing, or listing a root or its day folder failed
scanLevelError == last.failed # {} \/ \E loc \in Localities : RootOf(loc) \notin dirs

runWorked ==
    /\ backfillEnded
    /\ last.failed = {}
    /\ last.aborted = {}
    /\ last.unreadable = {}
    /\ \A p \in last.processed : docs[p].text => p \in last.saved

\* C20: a run that follows a run which met no failure changes no file and
\* returns 0.
C20_SecondRunIdle ==
    [][(runWorked /\ last'.op = "generateMissingEmbeddings" /\ last'.run = last.run + 1) =>
           (vecs' = vecs /\ docs' = docs /\ dirs' = dirs /\ last'.count = 0)]_vars

\* a second run found no document lacking a vector and returned 0
C20_Witness ==
    /\ backfillEnded
    /\ last.run = 2
    /\ last.missing = {}
    /\ DOMAIN vecs # {}
    /\ last.count = 0

\* C21: the loader is invoked at most once; of the calls that awaited the
\* initialization, every one that has resumed after a failed load raised the
\* load error, and none did after a successful load.
C21_OneLoadSharedOutcome ==
    /\ loads <= 1
    /\ \A c \in DOMAIN calls :
           (calls[c].entered \in {"none", "pending"} /\ calls[c].pc \in {"extract", "done"}) =>
               /\ initPromise = "rejected" => calls[c].result = LoadError
               /\ initPromise = "resolved" => calls[c].result # LoadError

\* three calls arrived before the load finished; it failed once and all three
\* raised the load error
C21_Witness ==
    /\ loads = 1
    /\ initPromise = "rejected"
    /\ \A c \in DOMAIN calls :
           /\ calls[c].entered \in {"none", "pending"}
           /\ calls[c].result = LoadError
    /\ \E c, d \in DOMAIN calls : calls[c].entered = "none" /\ calls[d].entered = "pending"

\* C22: once the initialization has failed it stays failed, the loader is not
\* invoked again, and every call that ends afterwards has failed.
C22_FailedInitSticky ==
    [][initPromise = "rejected" =>
           /\ initPromise' = "rejected"
           /\ loads' = loads
           /\ ~extractor'
           /\ \A c \in DOMAIN calls :
                  (calls[c].pc # "done" /\ calls'[c].pc = "done") =>
                      calls'[c].result = LoadError]_vars

\* a call made after the initialization had failed raised the load error, the
\* loader having run once
C22_Witness ==
    /\ initPromise = "rejected"
    /\ loads = 1
    /\ \E c \in DOMAIN calls :
           /\ calls[c].entered = "rejected"
           /\ calls[c].pc = "done"
           /\ calls[c].result = LoadError

\* the runs of SpecRace have all returned
runsEnded == \A r \in DOMAIN calls : calls[r].pc = "done"

\* C23: at every point, every vector document there is holds a complete
\* record; none is seen partially written.
C23_NeverPartial == \A p \in DOMAIN vecs : sound(vecs[p])

\* a search read a vector document that a save had opened and not yet written
C23_Witness ==
    /\ last.op = "search"
    /\ last.result = Returned
    /\ \E p \in last.reads : p \in DOMAIN vecs /\ vecs[p] = PartialFile
    /\ \E r \in DOMAIN calls : calls[r].pc = "write"

\* C29: each run generates a given vector at most once, and when both runs
\* have returned, every entry for which a run saved a vector has a complete
\* vector document, the one a single run writes.
C29_RacingRunsDoNotCorrupt ==
    /\ \A r \in DOMAIN calls : ~calls[r].repeated
    /\ runsEnded =>
           \A r \in DOMAIN calls : \A mdPath \in calls[r].saved :
               /\ embeddingPathOf(mdPath) \in DOMAIN vecs
               /\ sound(vecs[embeddingPathOf(mdPath)])
               /\ vecs[embeddingPathOf(mdPath)].path = mdPath
               /\ vecs[embeddingPathOf(mdPath)].embedding = DocumentEmbedding

\* the localities a local or hybrid write stores a content document in
targetsOf(c) ==
    IF c.kind = "entry" THEN {"project"}
    ELSE {loc \in Localities :
             IF loc = "project" THEN hasProjectContent(c.input) ELSE hasUserContent(c.input)}

\* call record c has written its content documents and tried their vectors
localDone(c) ==
    \A loc \in targetsOf(c) :
        /\ c.wrote[loc]
        /\ c.file[loc] \in DOMAIN docs
        /\ c.emb[loc] # "none"

\* C25: a vector document is there only next to its content document; a write
\* derives the vector of a document only after having written the document,
\* and in local and hybrid modes issues its remote post only after all its
\* content documents were written and their vectors tried.
C25_WriteStepsOrdered ==
    /\ \A p \in DOMAIN vecs :
           /\ vecs[p].path \in DOMAIN docs
           /\ embeddingPathOf(vecs[p].path) = p
    /\ \A w \in WriteIds :
           /\ writes[w].pc = "embed" =>
                  /\ writes[w].wrote[writes[w].loc]
                  /\ writes[w].file[writes[w].loc] \in DOMAIN docs
                  /\ writes[w].emb[writes[w].loc] = "none"
           /\ (writes[w].pc = "post" /\ ~skipsLocal) => localDone(writes[w])
    /\ (last.op = "write" /\ last.call.post # "none" /\ ~skipsLocal) => localDone(last.call)

\* a hybrid write of thoughts for both localities has returned: both content
\* documents and both vectors were saved before the post was accepted
C25_Witness ==
    /\ last.op = "write"
    /\ RemoteEnabled /\ ~RemoteOnly
    /\ last.call.post = "ok"
    /\ targetsOf(last.call) = Localities
    /\ \A loc \in Localities :
           /\ last.call.emb[loc] = "saved"
           /\ embeddingPathOf(last.call.file[loc]) \in DOMAIN vecs

\* C26: a write that returns without raising has stored its entry: a content
\* document written by the call is there, or the remote server accepted its post.
C26_ReturnedMeansStored ==
    (last.op = "write" /\ last.call.result = Returned) =>
        \/ last.call.post = "ok"
        \/ \E loc \in Localities :
               /\ last.call.wrote[loc]
               /\ last.call.file[loc] \in DOMAIN docs
               /\ docs[last.call.file[loc]].writer = last.w

\* writeThoughts({project_notes: ''}) has returned with no remote configured:
\* no document was written and nothing was posted
C26_Witness ==
    /\ last.op = "write"
    /\ last.call.result = Returned
    /\ remoteConfig = NoRemote
    /\ last.call.kind = "thoughts"
    /\ last.call.input["project_notes"] = "empty"
    /\ docs = NoFiles
    /\ remoteStore = {}

\* writeEntry('text') has returned under a remote-only configuration that is
\* not enabled: no document was written and nothing was posted
C26_WitnessRemoteOnly ==
    /\ last.op = "write"
    /\ last.call.result = Returned
    /\ RemoteOnly /\ ~RemoteEnabled
    /\ last.call.kind = "entry"
    /\ last.call.input = "text"
    /\ docs = NoFiles
    /\ remoteStore = {}

\* the name of the vector document that lies next to content document mdPath
siblingVector(mdPath) == SubSeq(mdPath, 1, Len(mdPath) - Len(MdExt)) \o EmbeddingExt

\* a local search or listRecent has returned a list
listReturned ==
    /\ last.op \in {"search", "listRecent"}
    /\ last.remote = "none"
    /\ last.result = Returned

\* C27: in local and hybrid modes every entry that search or listRecent
\* returns has a vector document next to its content document; a content
\* document without one is in no result.
C27_OnlyEmbeddedEntriesListed ==
    listReturned =>
        /\ ~RemoteOnly
        /\ \A p \in listedEntries : siblingVector(p) \in DOMAIN vecs
        /\ \A d \in DOMAIN docs : siblingVector(d) \notin DOMAIN vecs => d \notin listedEntries

\* thoughts for both localities were written, the vector of the user document
\* failed, and a query over both roots returned the project entry alone
C27_Witness ==
    /\ listReturned
    /\ last.arg = "both"
    /\ \E d, e \in DOMAIN docs :
           /\ siblingVector(d) \in DOMAIN vecs
           /\ siblingVector(e) \notin DOMAIN vecs
           /\ listedEntries = {d}

\* C28: the timestamp in a vector document is the timestamp in the envelope
\* of the content document next to it, for vectors of the original write and
\* for regenerated ones.
C28_VectorTimestampIsEntrys ==
    \A d \in DOMAIN docs :
        (siblingVector(d) \in DOMAIN vecs /\ sound(vecs[siblingVector(d)])) =>
            vecs[siblingVector(d)].timestamp = docs[d].timestamp

\* a run regenerated the vector of an entry written at a time with a
\* millisecond part: the vector holds the time of the file name, a whole second
C28_Witness ==
    /\ backfillEnded
    /\ \E d \in last.saved :
           /\ docs[d].timestamp = 1
           /\ vecs[siblingVector(d)].timestamp = 0
           /\ vecs[siblingVector(d)].timestamp = extractTimestampFromPath(d)

\* a resources/read of a URI that the resources/list just before it returned
readsListed ==
    /\ last.op = "resources/list"
    /\ last'.op = "resources/read"
    /\ last'.arg \in last.uris

\* the storage failed under the read: the file could not be read, or the
\* remote server failed or no longer holds the entry
storageFailed(read) ==
    /\ read.entry # NotCalled
    /\ \/ read.entry.fs \in {"EACCES", "ENOENT"}
       \/ read.remote \in RemoteFailures \cup {"404"}

\* C30: in every mode every URI that the resource listing returns is valid,
\* and a resource read of it just after returns the entry's content unless
\* the storage fails under the read.
C30_ListedUrisReadBack ==
    [][readsListed =>
           /\ isValidJournalUri(last'.arg)
           /\ last'.result = Content \/ storageFailed(last')]_vars

\* remote-only: the listing returned the URI of the remote entry, and the read
\* of that URI was denied before any request was made
C30_Witness ==
    /\ RemoteOnly /\ RemoteEnabled
    /\ remoteStore # {}
    /\ last.op = "resources/read"
    /\ last.arg = createJournalUri(RemoteId, "project")
    /\ isValidJournalUri(last.arg)
    /\ last.entry = NotCalled
    /\ last.result = <<"Failed to read resource: ",
                       "Access denied: Path outside allowed directories">>

\* a string without unpaired surrogates
wellFormed(text) == \A i \in 1..Len(text) : text[i] # LoneSurrogate

\* C24 as stated: the URI of every non-empty path is valid and decodes to it.
C24_AsStated ==
    (last.op = "createJournalUri" /\ pathIn # <<>>) =>
        /\ last.valid
        /\ last.decoded = pathIn

\* C24: the URI of every non-empty path is valid, its locality the one given;
\* it decodes to the path when the path holds no unpaired surrogate, and to the
\* path with U+FFFD in their place otherwise.
C24_RoundTrip ==
    (last.op = "createJournalUri" /\ pathIn # <<>>) =>
        /\ last.valid
        /\ last.uri.loc = last.type
        /\ wellFormed(pathIn) => last.decoded = pathIn
        /\ last.decoded = [i \in 1..Len(pathIn) |->
                              IF pathIn[i] = LoneSurrogate THEN Replacement ELSE pathIn[i]]

\* a path that is not safe went round
C24_Witness ==
    /\ last.op = "createJournalUri"
    /\ pathIn = <<".", ".", "/">>
    /\ isPathSafe(pathIn) = "false"
    /\ last.valid
    /\ last.decoded = pathIn

\* both runs found the vector missing; the first saved it, the second opened it
\* again and failed to write: the runs have returned and the document is broken
C29_Witness ==
    /\ runsEnded
    /\ \E r \in DOMAIN calls : \E mdPath \in calls[r].saved :
           /\ vecs[embeddingPathOf(mdPath)] = PartialFile
           /\ \A q \in DOMAIN calls : mdPath \in calls[q].generated
           /\ \A q \in DOMAIN calls : ~calls[q].repeated

====
